---------------------------- MODULE Spec2Model ----------------------------
(***************************************************************************)
(* A model of the Valiqor tracing SDK: the Redactor (valiqor/redact.py),   *)
(* the FileSink (valiqor/sinks/file_sink.py) and the Trace session engine  *)
(* (valiqor/trace.py).                                                     *)
(*                                                                         *)
(* Python strings are sequences of one-character strings, so that the      *)
(* regular expressions of redact.py are matched character by character.    *)
(* Python values are tagged records (see "Values").                        *)
(***************************************************************************)
EXTENDS Integers, Sequences, FiniteSets, TLC

(***************************************************************************)
(* Characters and character classes (Python's re, str patterns).           *)
(***************************************************************************)
LowerSeq == <<"a","b","c","d","e","f","g","h","i","j","k","l","m","n","o","p","q","r","s","t","u","v","w","x","y","z">>
UpperSeq == <<"A","B","C","D","E","F","G","H","I","J","K","L","M","N","O","P","Q","R","S","T","U","V","W","X","Y","Z">>
DigitSeq == <<"0","1","2","3","4","5","6","7","8","9">>

Range(f) == {f[i] : i \in DOMAIN f}

Lowers == Range(LowerSeq)
Uppers == Range(UpperSeq)
Digits == Range(DigitSeq)
Letters == Lowers \cup Uppers

\* str.lower() on one character
LowerChar(c) ==
  IF c \in Uppers THEN LowerSeq[CHOOSE k \in DOMAIN UpperSeq : UpperSeq[k] = c] ELSE c

\* str.upper() on one character
UpperChar(c) ==
  IF c \in Lowers THEN UpperSeq[CHOOSE k \in DOMAIN LowerSeq : LowerSeq[k] = c] ELSE c

\* str.lower()
LowerStr(s) == [i \in 1..Len(s) |-> LowerChar(s[i])]

\* \w : letters, digits and the underscore
IsWord(c) == c \in Letters \cup Digits \cup {"_"}

\* \s : whitespace
IsSpace(c) == c \in {" "}

\* membership of one character in a named class of the patterns
InClassExact(c, cls) ==
  CASE cls = "word_dash"   -> IsWord(c) \/ c = "-"                 \* [\w\-]
    [] cls = "word_dash_dot" -> IsWord(c) \/ c \in {"-", "."}      \* [\w\-\.]
    [] cls = "word_nonspace" -> IsWord(c) \/ ~IsSpace(c)           \* [\w\S]
    [] cls = "space"       -> IsSpace(c)                           \* \s
    [] cls = "digit"       -> c \in Digits                         \* \d
    [] cls = "space_dash"  -> IsSpace(c) \/ c = "-"                \* [\s\-]
    [] cls = "quote"       -> c \in {"\"", "'"}                    \* [\"\']
    [] cls = "colon_eq"    -> c \in {":", "="}                     \* [:=]
    [] cls = "under_dash"  -> c \in {"_", "-"}                     \* [_-]
    [] cls = "email_local" -> c \in Letters \cup Digits \cup {".", "_", "%", "+", "-"}  \* [A-Za-z0-9._%+-]
    [] cls = "email_host"  -> c \in Letters \cup Digits \cup {".", "-"}                 \* [A-Za-z0-9.-]
    [] cls = "email_tld"   -> c \in Letters \cup {"|"}             \* [A-Z|a-z]
    [] OTHER               -> FALSE

\* re.IGNORECASE: a character matches when it, its lower case or its upper
\* case is in the class
InClass(c, cls, ic) ==
  \/ InClassExact(c, cls)
  \/ ic /\ (InClassExact(LowerChar(c), cls) \/ InClassExact(UpperChar(c), cls))

\* a literal pattern character against a text character
LitMatches(c, p, ic) ==
  \/ c = p
  \/ ic /\ (LowerChar(c) = p \/ UpperChar(c) = p)

(***************************************************************************)
(* Regular expressions as syntax trees, and a backtracking matcher.        *)
(* Ends(r, s, i, ic) is the sequence of positions at which a match of r    *)
(* starting at position i of s can end, in the order in which Python's     *)
(* backtracking matcher tries them (alternatives left to right, greedy     *)
(* repetitions longest first); the match re finds at i ends at the first.  *)
(***************************************************************************)
Inf == 0 - 1

Lit1(p) == [op |-> "lit", c |-> p]
Lit(str) == [op |-> "str", s |-> str]
Cls(name) == [op |-> "cls", cls |-> name]
Cat(rs) == [op |-> "cat", args |-> rs]
Alt(rs) == [op |-> "alt", args |-> rs]
\* r{lo,hi} for a sub-pattern r of any shape
Rep(r, lo, hi) == [op |-> "rep", arg |-> r, min |-> lo, max |-> hi]
\* [class]{lo,hi}: the repetition of one character class
RepCls(name, lo, hi) == [op |-> "repcls", cls |-> name, min |-> lo, max |-> hi]
Opt(r) == Rep(r, 0, 1)
WordBoundary == [op |-> "wb"]

MinOf(S) == CHOOSE m \in S : \A k \in S : m <= k

\* \b at position i (between s[i-1] and s[i])
AtWordBoundary(s, i) ==
  LET before == i > 1 /\ IsWord(s[i-1])
      after == i <= Len(s) /\ IsWord(s[i])
  IN before # after

\* a literal string at position i
StrMatches(s, i, str, ic) ==
  /\ i + Len(str) - 1 <= Len(s)
  /\ \A j \in 1..Len(str) : LitMatches(s[i + j - 1], str[j], ic)

\* the number of consecutive characters of class cls from position i on
RunLen(s, i, cls, ic) ==
  LET bad == {j \in i..Len(s) : ~InClass(s[j], cls, ic)}
  IN IF bad = {} THEN Len(s) - i + 1 ELSE MinOf(bad) - i

\* greedy [class]{lo,hi}: the longest run first, then one character less, ...
EndsRepCls(r, s, i, ic) ==
  LET run == RunLen(s, i, r.cls, ic)
      hi == IF r.max = Inf \/ run < r.max THEN run ELSE r.max
  IN IF hi < r.min THEN <<>>
     ELSE [k \in 1..(hi - r.min + 1) |-> i + hi - (k - 1)]

RECURSIVE Ends(_, _, _, _)
RECURSIVE EndsCat(_, _, _, _, _)
RECURSIVE EndsCatOver(_, _, _, _, _, _)
RECURSIVE EndsAlt(_, _, _, _, _)
RECURSIVE EndsRep(_, _, _, _, _)
RECURSIVE EndsRepOver(_, _, _, _, _, _)

Ends(r, s, i, ic) ==
  CASE r.op = "lit" -> IF i <= Len(s) /\ LitMatches(s[i], r.c, ic) THEN <<i + 1>> ELSE <<>>
    [] r.op = "str" -> IF StrMatches(s, i, r.s, ic) THEN <<i + Len(r.s)>> ELSE <<>>
    [] r.op = "cls" -> IF i <= Len(s) /\ InClass(s[i], r.cls, ic) THEN <<i + 1>> ELSE <<>>
    [] r.op = "wb"  -> IF AtWordBoundary(s, i) THEN <<i>> ELSE <<>>
    [] r.op = "cat" -> EndsCat(r.args, 1, s, i, ic)
    [] r.op = "alt" -> EndsAlt(r.args, 1, s, i, ic)
    [] r.op = "rep" -> EndsRep(r, 0, s, i, ic)
    [] r.op = "repcls" -> EndsRepCls(r, s, i, ic)

EndsCat(args, k, s, i, ic) ==
  IF k > Len(args) THEN <<i>>
  ELSE EndsCatOver(Ends(args[k], s, i, ic), 1, args, k, s, ic)

EndsCatOver(es, j, args, k, s, ic) ==
  IF j > Len(es) THEN <<>>
  ELSE EndsCat(args, k + 1, s, es[j], ic) \o EndsCatOver(es, j + 1, args, k, s, ic)

EndsAlt(args, k, s, i, ic) ==
  IF k > Len(args) THEN <<>>
  ELSE Ends(args[k], s, i, ic) \o EndsAlt(args, k + 1, s, i, ic)

\* greedy repetition: one more iteration is tried before stopping (the
\* repeated sub-patterns of PATTERNS never match the empty string, so an
\* iteration always advances)
EndsRep(r, count, s, i, ic) ==
  (IF r.max = Inf \/ count < r.max
   THEN EndsRepOver(Ends(r.arg, s, i, ic), 1, r, count, s, ic)
   ELSE <<>>)
  \o (IF count >= r.min THEN <<i>> ELSE <<>>)

EndsRepOver(es, j, r, count, s, ic) ==
  IF j > Len(es) THEN <<>>
  ELSE EndsRep(r, count + 1, s, es[j], ic) \o EndsRepOver(es, j + 1, r, count, s, ic)

(***************************************************************************)
(* redact.py: the detection patterns, in the order of the PATTERNS dict.   *)
(***************************************************************************)
Marker == <<"[","R","E","D","A","C","T","E","D","]">>
MaxDepthMarker == <<"[","M","A","X","_","D","E","P","T","H","_","E","X","C","E","E","D","E","D","]">>
UnserializableMarker == <<"[","U","N","S","E","R","I","A","L","I","Z","A","B","L","E","]">>

str_sk == <<"s","k","-">>
str_api == <<"a","p","i">>
str_key == <<"k","e","y">>
str_bearer == <<"b","e","a","r","e","r">>
str_token == <<"t","o","k","e","n">>
str_jwt == <<"j","w","t">>
str_auth == <<"a","u","t","h">>
str_password == <<"p","a","s","s","w","o","r","d">>
str_passwd == <<"p","a","s","s","w","d">>
str_pwd == <<"p","w","d">>

\* (sk-|api[_-]?key|bearer\s+)[\w\-]{20,}   IGNORECASE
re_api_key ==
  Cat(<< Alt(<< Lit(str_sk),
               Cat(<< Lit(str_api), Opt(Cls("under_dash")), Lit(str_key) >>),
               Cat(<< Lit(str_bearer), RepCls("space", 1, Inf) >>) >>),
         RepCls("word_dash", 20, Inf) >>)

\* (token|jwt|auth)[\"\']?\s*[:=]\s*[\"\']?[\w\-\.]{20,}   IGNORECASE
re_token ==
  Cat(<< Alt(<< Lit(str_token), Lit(str_jwt), Lit(str_auth) >>),
         Opt(Cls("quote")), RepCls("space", 0, Inf), Cls("colon_eq"),
         RepCls("space", 0, Inf), Opt(Cls("quote")),
         RepCls("word_dash_dot", 20, Inf) >>)

\* (password|passwd|pwd)[\"\']?\s*[:=]\s*[\"\']?[\w\S]{6,}   IGNORECASE
re_password ==
  Cat(<< Alt(<< Lit(str_password), Lit(str_passwd), Lit(str_pwd) >>),
         Opt(Cls("quote")), RepCls("space", 0, Inf), Cls("colon_eq"),
         RepCls("space", 0, Inf), Opt(Cls("quote")),
         RepCls("word_nonspace", 6, Inf) >>)

\* \b[A-Za-z0-9._%+-]+@[A-Za-z0-9.-]+\.[A-Z|a-z]{2,}\b
re_email ==
  Cat(<< WordBoundary, RepCls("email_local", 1, Inf), Lit1("@"),
         RepCls("email_host", 1, Inf), Lit1("."),
         RepCls("email_tld", 2, Inf), WordBoundary >>)

\* \b\d{3}-\d{2}-\d{4}\b
re_ssn ==
  Cat(<< WordBoundary, RepCls("digit", 3, 3), Lit1("-"), RepCls("digit", 2, 2),
         Lit1("-"), RepCls("digit", 4, 4), WordBoundary >>)

\* \b\d{4}[\s\-]?\d{4}[\s\-]?\d{4}[\s\-]?\d{4}\b
re_credit_card ==
  Cat(<< WordBoundary, RepCls("digit", 4, 4), Opt(Cls("space_dash")),
         RepCls("digit", 4, 4), Opt(Cls("space_dash")),
         RepCls("digit", 4, 4), Opt(Cls("space_dash")),
         RepCls("digit", 4, 4), WordBoundary >>)

\* \b(\+\d{1,3}[\s\-]?)?\(?\d{3}\)?[\s\-]?\d{3}[\s\-]?\d{4}\b
re_phone ==
  Cat(<< WordBoundary,
         Opt(Cat(<< Lit1("+"), RepCls("digit", 1, 3), Opt(Cls("space_dash")) >>)),
         Opt(Lit1("(")), RepCls("digit", 3, 3), Opt(Lit1(")")),
         Opt(Cls("space_dash")), RepCls("digit", 3, 3), Opt(Cls("space_dash")),
         RepCls("digit", 4, 4), WordBoundary >>)

PATTERNS ==
  << [name |-> "api_key",     re |-> re_api_key,     ic |-> TRUE],
     [name |-> "token",       re |-> re_token,       ic |-> TRUE],
     [name |-> "password",    re |-> re_password,    ic |-> TRUE],
     [name |-> "email",       re |-> re_email,       ic |-> FALSE],
     [name |-> "ssn",         re |-> re_ssn,         ic |-> FALSE],
     [name |-> "credit_card", re |-> re_credit_card, ic |-> FALSE],
     [name |-> "phone",       re |-> re_phone,       ic |-> FALSE] >>

\* re search from position i: the leftmost position at or after i where the
\* pattern matches (0 when there is none)
MatchStart(p, s, i) ==
  LET starts == {j \in i..Len(s) : Ends(p.re, s, j, p.ic) # <<>>}
  IN IF starts = {} THEN 0 ELSE MinOf(starts)

\* pattern.sub("[REDACTED]", text): each leftmost match is replaced and the
\* scan resumes at its end (no pattern of PATTERNS matches the empty string)
RECURSIVE SubFrom(_, _, _)
SubFrom(p, s, i) ==
  IF MatchStart(p, s, i) = 0 THEN SubSeq(s, i, Len(s))
  ELSE SubSeq(s, i, MatchStart(p, s, i) - 1) \o Marker
       \o SubFrom(p, s, Ends(p.re, s, MatchStart(p, s, i), p.ic)[1])

Sub(p, s) == SubFrom(p, s, 1)

\* the loop of redact_string over PATTERNS.values()
RECURSIVE RedactFrom(_, _)
RedactFrom(k, text) ==
  IF k > Len(PATTERNS) THEN text ELSE RedactFrom(k + 1, Sub(PATTERNS[k], text))

\* mutant of redact_string: the loop misses the first pattern
redact_string_SkipFirst(text) == RedactFrom(2, text)

redact_string(text) == RedactFrom(1, text)

(***************************************************************************)
(* Values.  A Python value is a tagged record:                             *)
(*   None  [t |-> "none"]           bool   [t |-> "bool", b |-> TRUE]      *)
(*   int   [t |-> "int", n |-> 3]   str    [t |-> "str", s |-> <<"h","i">>]*)
(*   float [t |-> "float", f |-> 3]                                        *)
(*   dict  [t |-> "map", m |-> << [k |-> key, v |-> value], ... >>]        *)
(*         (the pairs in insertion order, the keys distinct)               *)
(*   list  [t |-> "list", l |-> <<...>>]   tuple [t |-> "tuple", tu |-> ..]*)
(*   set   [t |-> "set", e |-> {...}]                                      *)
(*   any other object: [t |-> "obj", repr |-> <<...>>], repr its str();    *)
(*   an object whose str() raises: [t |-> "badobj"]                        *)
(*   an ISO timestamp string: [t |-> "ts", at |-> c]                       *)
(***************************************************************************)
PyNone == [t |-> "none"]
PyBool(x) == [t |-> "bool", b |-> x]
PyInt(x) == [t |-> "int", n |-> x]
PyFloat(x) == [t |-> "float", f |-> x]
PyStr(x) == [t |-> "str", s |-> x]
PyDict(pairs) == [t |-> "map", m |-> pairs]
PyList(xs) == [t |-> "list", l |-> xs]
PyTuple(xs) == [t |-> "tuple", tu |-> xs]
PySet(xs) == [t |-> "set", e |-> xs]
PyObj(r) == [t |-> "obj", repr |-> r]
PyBadObj == [t |-> "badobj"]
PyTimestamp(c) == [t |-> "ts", at |-> c]
KV(key, val) == [k |-> key, v |-> val]

str_api_key == <<"a","p","i","_","k","e","y">>
str_apikey == <<"a","p","i","k","e","y">>
str_api_dash_key == <<"a","p","i","-","k","e","y">>
str_secret == <<"s","e","c","r","e","t">>
str_secret_key == <<"s","e","c","r","e","t","_","k","e","y">>
str_secretkey == <<"s","e","c","r","e","t","k","e","y">>
str_access_token == <<"a","c","c","e","s","s","_","t","o","k","e","n">>
str_refresh_token == <<"r","e","f","r","e","s","h","_","t","o","k","e","n">>
str_auth_token == <<"a","u","t","h","_","t","o","k","e","n">>
str_private_key == <<"p","r","i","v","a","t","e","_","k","e","y">>
str_privatekey == <<"p","r","i","v","a","t","e","k","e","y">>
str_client_secret == <<"c","l","i","e","n","t","_","s","e","c","r","e","t">>
str_clientsecret == <<"c","l","i","e","n","t","s","e","c","r","e","t">>

SENSITIVE_KEYS ==
  { str_api_key, str_apikey, str_api_dash_key,
    str_secret, str_secret_key, str_secretkey,
    str_password, str_passwd, str_pwd,
    str_token, str_access_token, str_refresh_token, str_auth_token,
    str_private_key, str_privatekey,
    str_client_secret, str_clientsecret,
    str_bearer }

\* mutant of IsSensitiveKey: the key is compared without lower()
IsSensitiveKey_NoLower(key) == key.t = "str" /\ key.s \in SENSITIVE_KEYS

\* isinstance(key, str) and key.lower() in SENSITIVE_KEYS
IsSensitiveKey(key) == key.t = "str" /\ LowerStr(key.s) \in SENSITIVE_KEYS

\* the default of safe's max_depth parameter
DEFAULT_MAX_DEPTH == 10

MaxOf(S) == CHOOSE m \in S : \A k \in S : m >= k

\* mutant of TooDeep: the guard lets one more level through
TooDeep_OneMore(depth, max_depth) == depth > max_depth + 1

\* if depth > max_depth
TooDeep(depth, max_depth) == depth > max_depth

\* safe(obj, depth, max_depth)
RECURSIVE safe(_, _, _)
safe(obj, depth, max_depth) ==
  IF TooDeep(depth, max_depth) THEN PyStr(MaxDepthMarker)
  ELSE CASE obj.t \in {"none", "bool", "int", "float"} -> obj
         [] obj.t \in {"str", "ts"} ->
              IF obj.t = "str" THEN PyStr(redact_string(obj.s)) ELSE obj
         [] obj.t = "map" ->
              PyDict([i \in 1..Len(obj.m) |->
                     IF IsSensitiveKey(obj.m[i].k)
                     THEN KV(obj.m[i].k, PyStr(Marker))
                     ELSE KV(obj.m[i].k, safe(obj.m[i].v, depth + 1, max_depth))])
         [] obj.t = "list" ->
              PyList([i \in 1..Len(obj.l) |-> safe(obj.l[i], depth + 1, max_depth)])
         [] obj.t = "tuple" ->
              PyTuple([i \in 1..Len(obj.tu) |-> safe(obj.tu[i], depth + 1, max_depth)])
         [] obj.t = "set" ->
              PySet({safe(x, depth + 1, max_depth) : x \in obj.e})
         [] obj.t = "obj" -> PyStr(redact_string(obj.repr))
         [] obj.t = "badobj" -> PyStr(UnserializableMarker)

\* sanitize(obj): the alias for safe(obj)
sanitize(obj) == safe(obj, 0, DEFAULT_MAX_DEPTH)


(***************************************************************************)
(* State.                                                                  *)
(*   red      : the Redactor driven on its own (SpecRedact): the input,    *)
(*              the result of sanitize(input) and of sanitize of that; the *)
(*              call of safe run step by step (SpecWalk); the locals of    *)
(*              scan_repo (SpecScan).                                      *)
(*   clock    : the wall clock, in whole seconds.                          *)
(*   ioFailures : the opens and writes the operating system has failed.    *)
(*   handles  : FileSink._handles, the open runs in insertion order, each  *)
(*              [run |-> run_id, path |-> the file its handle writes].     *)
(*   files    : the trace files, in creation order, each                   *)
(*              [path, lines, open]; a line is [rec |-> the JSON record,   *)
(*              via |-> who wrote it and from which raw input].            *)
(*   active, start, spans : Trace._active_run_id, _session_start, _spans   *)
(*              of every Trace instance.                                   *)
(*   stack    : the session scopes entered and not yet left, innermost     *)
(*              last, each with the locals of Trace.session (run_id,       *)
(*              filepath) and the instance it belongs to.                  *)
(*   exc      : the exception now propagating in the caller, or NoExc.     *)
(*   nextRun, nextSpan : the fresh identifiers generate_id hands out.      *)
(*   issued   : the number of add_span and wrapped calls the caller has     *)
(*              made (history).                                            *)
(*   calls    : per instance, the add_span calls the caller has issued     *)
(*              since the instance's last session entry (history).         *)
(*   last     : the operation just performed (history).                    *)
(*   alive    : the program is running; FALSE once it has been aborted.    *)
(*   since    : the run_ids in the order in which they became open, each   *)
(*              for as long as it stays open (history, kept when the Sink  *)
(*              is driven on its own).                                     *)
(***************************************************************************)
VARIABLES red, clock, ioFailures, handles, files, active, start, spans, stack, exc,
          nextRun, nextSpan, issued, calls, last, alive, since

sessVars ==
  <<clock, ioFailures, handles, files, active, start, spans, stack, exc,
    nextRun, nextSpan, issued, calls, last, alive, since>>

vars ==
  <<red, clock, ioFailures, handles, files, active, start, spans, stack, exc,
    nextRun, nextSpan, issued, calls, last, alive, since>>

(***************************************************************************)
(* Inputs of the Redactor: strings made of segments, and structures.       *)
(***************************************************************************)
seg_pwd_eq == <<"p","w","d","=">>
seg_phone == <<"5","5","5"," ","1","2","3"," ","4","5","6","7">>
seg_sk_token == <<"s","k","-","1","2","3","4","5","6","7","8","9","0","a","b","c","d","e","f","g","h","i","j","k">>
seg_email == <<"u","s","e","r","@","e","x","a","m","p","l","e",".","c","o","m">>
seg_space == <<" ">>
seg_hi == <<"h","i">>
seg_ssn == <<"1","2","3","-","4","5","-","6","7","8","9">>
seg_card == <<"4","1","1","1"," ","1","1","1","1"," ","1","1","1","1"," ","1","1","1","1">>
seg_bearer == <<"B","e","a","r","e","r"," ">>
seg_word20 == <<"a","b","c","d","e","f","g","h","i","j","0","1","2","3","4","5","6","7","8","9">>
seg_secretpass == <<"s","e","c","r","e","t","p","a","s","s","1","2","3">>
str_this_is_fine == <<"t","h","i","s"," ","i","s"," ","f","i","n","e">>
str_note == <<"n","o","t","e">>
str_safe_data == <<"s","a","f","e","_","d","a","t","a">>
str_API_KEY == <<"A","P","I","_","K","E","Y">>
str_Password == <<"P","a","s","s","w","o","r","d">>
str_inner == <<"i","n","n","e","r">>
repr_cfg == <<"C","f","g","(","p","a","s","s","w","o","r","d","=","'","h","u","n","t","e","r","2","'",")">>
repr_point == <<"P","o","i","n","t","(","1",","," ","2",")">>

Segments ==
  << seg_pwd_eq, seg_phone, seg_sk_token, seg_email, seg_space, seg_hi,
     seg_bearer, seg_word20 >>

\* the most segments an input string is made of
MaxSegs == 3

RECURSIVE Concat(_)
Concat(ss) == IF ss = <<>> THEN <<>> ELSE Head(ss) \o Concat(Tail(ss))

InputStrings ==
  UNION { { Concat([i \in 1..n |-> Segments[f[i]]]) : f \in [1..n -> DOMAIN Segments] }
          : n \in 0..MaxSegs }
  \cup { seg_ssn, seg_card, Marker, seg_secretpass,
         str_Password \o <<"=", "'">> \o seg_secretpass \o <<"'">> }

\* the deepest nesting of an input structure (beyond DEFAULT_MAX_DEPTH)
MaxNesting == 12

InputLeaves ==
  { PyNone, PyBool(TRUE), PyInt(7), PyFloat(1), PyStr(str_this_is_fine),
    PyStr(seg_sk_token), PyStr(seg_pwd_eq \o seg_phone),
    PyObj(repr_cfg), PyObj(repr_point), PyBadObj,
    PySet({PyStr(seg_hi), PyStr(seg_email)}),
    PyTuple(<<PyStr(seg_hi), PyStr(seg_ssn)>>),
    PyDict(<<KV(PyStr(str_secret), PyStr(seg_hi))>>) }

InputKeys ==
  { PyStr(str_api_key), PyStr(str_API_KEY), PyStr(str_Password),
    PyStr(str_note), PyStr(str_safe_data), PyInt(1) }

\* v wrapped in n containers, lists and dicts in turn
RECURSIVE Nest(_, _)
Nest(v, n) ==
  IF n = 0 THEN v
  ELSE IF n % 2 = 1 THEN PyList(<<Nest(v, n - 1)>>)
  ELSE PyDict(<<KV(PyStr(str_inner), Nest(v, n - 1))>>)

InputStructures ==
  { Nest(PyDict(<<KV(k, leaf)>>), n) :
      k \in InputKeys, leaf \in InputLeaves, n \in 0..MaxNesting }
  \cup { PyDict(<<KV(PyStr(str_safe_data), PyStr(str_this_is_fine)), KV(k, leaf)>>) :
           k \in InputKeys \ {PyStr(str_safe_data)}, leaf \in InputLeaves }

RedactInputs == { PyStr(s) : s \in InputStrings } \cup InputStructures


RedactIdle == [pc |-> "idle"]

(***************************************************************************)
(* Bounds and inputs of the session model.                                 *)
(***************************************************************************)
\* the Trace instances; they share one FileSink
Traces == {"t1", "t2"}

\* the most sessions entered, add_span calls issued by the caller, and
\* seconds the clock advances
MaxRuns == 1
MaxSpans == 2
MaxClock == 1

\* the most opens and writes the operating system fails
MaxIoFailures == 1

\* the most sessions entered on the one instance of SpecNest
MaxSessions == 2

str_record_type == <<"r","e","c","o","r","d","_","t","y","p","e">>
str_metadata == <<"m","e","t","a","d","a","t","a">>
str_span == <<"s","p","a","n">>
str_summary == <<"s","u","m","m","a","r","y">>
str_run == <<"r","u","n">>
str_run_id == <<"r","u","n","_","i","d">>
str_span_id == <<"s","p","a","n","_","i","d">>
str_name == <<"n","a","m","e">>
str_timestamp == <<"t","i","m","e","s","t","a","m","p">>
str_duration_ms == <<"d","u","r","a","t","i","o","n","_","m","s">>
str_span_count == <<"s","p","a","n","_","c","o","u","n","t">>
str_app == <<"a","p","p">>
str_env == <<"e","n","v">>
str_error == <<"e","r","r","o","r">>
str_error_type == <<"e","r","r","o","r","_","t","y","p","e">>
str_function == <<"f","u","n","c","t","i","o","n">>
str_status == <<"s","t","a","t","u","s">>
str_ok == <<"o","k">>
str_session_error == <<"s","e","s","s","i","o","n",".","e","r","r","o","r">>
str_test_app == <<"t","e","s","t","-","a","p","p">>
str_test == <<"t","e","s","t">>
str_llm_call == <<"l","l","m",".","c","a","l","l">>
str_tokens == <<"t","o","k","e","n","s">>
str_tags == <<"t","a","g","s">>
str_user == <<"u","s","e","r">>
str_demo == <<"d","e","m","o">>
str_test_function == <<"t","e","s","t","_","f","u","n","c","t","i","o","n">>
str_my_function == <<"m","y","_","f","u","n","c","t","i","o","n">>
str_RuntimeError == <<"R","u","n","t","i","m","e","E","r","r","o","r">>
str_ValueError == <<"V","a","l","u","e","E","r","r","o","r">>
str_TypeError == <<"T","y","p","e","E","r","r","o","r">>
str_OSError == <<"O","S","E","r","r","o","r">>
\* a string of the module cannot hold a backquote: the two backquotes of the
\* message are written as apostrophes
msg_no_session == <<"N","o"," ","a","c","t","i","v","e"," ","s","e","s","s","i","o","n","."," ","U","s","e"," ","'","w","i","t","h"," ","t","r","a","c","e",".","s","e","s","s","i","o","n","(",")",":","'">>
msg_no_runs == <<"N","o"," ","a","c","t","i","v","e"," ","t","r","a","c","e"," ","r","u","n","s","."," ","C","a","l","l"," ","o","p","e","n","(",")"," ","f","i","r","s","t",".">>
msg_no_trace == <<"N","o"," ","a","c","t","i","v","e"," ","t","r","a","c","e"," ","f","o","r"," ","r","u","n","_","i","d",":"," ">>
msg_not_json == <<"O","b","j","e","c","t"," ","o","f"," ","t","y","p","e"," ","s","e","t"," ","i","s"," ","n","o","t"," ","J","S","O","N"," ","s","e","r","i","a","l","i","z","a","b","l","e">>
msg_none_start == <<"u","n","s","u","p","p","o","r","t","e","d"," ","o","p","e","r","a","n","d"," ","t","y","p","e","(","s",")"," ","f","o","r"," ","-",":"," ","'","f","l","o","a","t","'"," ","a","n","d"," ","'","N","o","n","e","T","y","p","e","'">>
msg_no_space == <<"[","E","r","r","n","o"," ","2","8","]"," ","N","o"," ","s","p","a","c","e"," ","l","e","f","t"," ","o","n"," ","d","e","v","i","c","e">>
msg_bad_token == <<"b","a","d"," ","t","o","k","e","n"," ">>
msg_boom == <<"b","o","o","m">>

\* datetime.utcnow().isoformat() + "Z": a timestamp string; the model does
\* not tell the timestamps of two records apart
utcnow_iso(now) == PyTimestamp(0)

\* f"{prefix}_{uuid.uuid4().hex[:8]}": the n-th identifier handed out
Hex8(n) == <<"0","0","0","0","0","0","0">> \o <<DigitSeq[n + 1]>>

generate_id(prefix, n) == PyStr(prefix \o <<"_">> \o Hex8(n))

RunIds == { generate_id(str_run, n) : n \in 1..(MaxRuns + MaxSessions) }

\* Trace(app="test-app", env="test")
APP == PyStr(str_test_app)
ENV == PyStr(str_test)

(***************************************************************************)
(* Exceptions: the class name, str(e), and where it was raised: in code    *)
(* the caller runs ("call"), in the except block or the finally block of   *)
(* the Trace.session of a run, or in the finally block of the timing       *)
(* wrapper.  Two exception objects are the same one only if all agree.     *)
(***************************************************************************)
NoExc == [type |-> <<>>, msg |-> <<>>, ctx |-> "none", run |-> PyNone]

Raise(type, msg) == [type |-> type, msg |-> msg, ctx |-> "call", run |-> PyNone]

InCtx(e, c, run_id) == [e EXCEPT !.ctx = c, !.run = run_id]

NoSessionError == Raise(str_RuntimeError, msg_no_session)
NoRunsError == Raise(str_ValueError, msg_no_runs)
NoTraceError(run_id) == Raise(str_ValueError, msg_no_trace \o run_id.s)
NotJsonError == Raise(str_TypeError, msg_not_json)
NoneStartError == Raise(str_TypeError, msg_none_start)
IOError == Raise(str_OSError, msg_no_space)

\* the errors a session body raises, and the wrapped function raises
BodyErrors == { Raise(str_ValueError, msg_bad_token \o seg_sk_token) }
WrappedErrors ==
  { Raise(str_ValueError, msg_boom),
    Raise(str_RuntimeError, msg_bad_token \o seg_sk_token) }

Raisable ==
  BodyErrors \cup WrappedErrors
  \cup { NoSessionError, NoRunsError, NotJsonError, NoneStartError, IOError }
  \cup { NoTraceError(r) : r \in RunIds }

\* the keyword arguments of the caller's add_span calls
FieldInputs ==
  { PyDict(<< KV(PyStr(str_api_key), PyStr(seg_sk_token)),
              KV(PyStr(str_password), PyStr(seg_secretpass)),
              KV(PyStr(str_safe_data), PyStr(str_this_is_fine)),
              KV(PyStr(str_tokens), PyTuple(<<PyInt(100), PyInt(20)>>)) >>),
    PyDict(<< KV(PyStr(str_tags), PySet({PyStr(seg_hi), PyStr(str_demo)})) >>),
    PyDict(<< KV(PyStr(str_record_type), PyStr(str_summary)) >>) }

\* the metadata argument of session()
MetaInputs ==
  { PyNone,
    PyDict(<< KV(PyStr(str_user), PyStr(str_demo)),
              KV(PyStr(str_api_key), PyStr(seg_sk_token)) >>),
    PyDict(<< KV(PyStr(str_record_type), PyStr(str_span)),
              KV(PyStr(str_app), PyStr(str_demo)) >>) }

\* x = ...; then the statements F that use x
With(x, F(_)) == F(x)

(***************************************************************************)
(* Dicts and JSON.                                                         *)
(***************************************************************************)
HasKey(pairs, key) == \E i \in DOMAIN pairs : pairs[i].k = key

Lookup(pairs, key) == pairs[CHOOSE i \in DOMAIN pairs : pairs[i].k = key].v

\* {**a, **b}: the keys of a keep their place and take b's value, the new
\* keys of b follow in b's order
Merge(a, b) ==
  [i \in DOMAIN a |-> IF HasKey(b, a[i].k) THEN KV(a[i].k, Lookup(b, a[i].k)) ELSE a[i]]
  \o SelectSeq(b, LAMBDA p : ~HasKey(a, p.k))

\* json.dumps raises TypeError on v
RECURSIVE JsonSerializable(_)
JsonSerializable(v) ==
  CASE v.t \in {"none", "bool", "int", "float", "str", "ts"} -> TRUE
    [] v.t = "map" ->
         \A i \in DOMAIN v.m :
            /\ v.m[i].k.t \in {"none", "bool", "int", "float", "str", "ts"}
            /\ JsonSerializable(v.m[i].v)
    [] v.t = "list" -> \A i \in DOMAIN v.l : JsonSerializable(v.l[i])
    [] v.t = "tuple" -> \A i \in DOMAIN v.tu : JsonSerializable(v.tu[i])
    [] OTHER -> FALSE

RECURSIVE IntStr(_)
IntStr(n) ==
  IF n < 10 THEN <<DigitSeq[n + 1]>>
  ELSE IntStr(n \div 10) \o <<DigitSeq[(n % 10) + 1]>>

\* a dict key as JSON writes it
JsonKey(key) ==
  CASE key.t = "int" -> PyStr(IntStr(key.n))
    [] key.t = "float" -> PyStr(IntStr(key.f) \o <<".", "0">>)
    [] key.t = "bool" -> PyStr(IF key.b THEN <<"t","r","u","e">> ELSE <<"f","a","l","s","e">>)
    [] key.t = "none" -> PyStr(<<"n","u","l","l">>)
    [] OTHER -> key

\* the value a reader of the line gets back: tuples are arrays, keys strings
RECURSIVE ToJson(_)
ToJson(v) ==
  CASE v.t = "map" ->
         PyDict([i \in DOMAIN v.m |-> KV(JsonKey(v.m[i].k), ToJson(v.m[i].v))])
    [] v.t = "list" -> PyList([i \in DOMAIN v.l |-> ToJson(v.l[i])])
    [] v.t = "tuple" -> PyList([i \in DOMAIN v.tu |-> ToJson(v.tu[i])])
    [] OTHER -> v

(***************************************************************************)
(* FileSink (valiqor/sinks/file_sink.py).  The operations take the handle  *)
(* table hs and the files fs and return what they leave behind, and the    *)
(* exception they raise.  ioOk is the environment: whether the operating   *)
(* system carries out the open or the write.                               *)
(***************************************************************************)
HasHandle(hs, run_id) == \E i \in DOMAIN hs : hs[i].run = run_id

\* mutant of HandlePath: the handle of the first opened run, whatever run_id
HandlePath_First(hs, run_id) == hs[1].path

HandlePath(hs, run_id) == hs[CHOOSE i \in DOMAIN hs : hs[i].run = run_id].path

\* mutant of PutHandle: a run_id that is opened again goes last
PutHandle_Last(hs, run_id, path) ==
  Append(SelectSeq(hs, LAMBDA h : h.run # run_id), [run |-> run_id, path |-> path])

\* self._handles[run_id] = handle
PutHandle(hs, run_id, path) ==
  IF HasHandle(hs, run_id)
  THEN [i \in DOMAIN hs |-> IF hs[i].run = run_id THEN [run |-> run_id, path |-> path] ELSE hs[i]]
  ELSE Append(hs, [run |-> run_id, path |-> path])

\* open(filepath, "w"): the file is created, or truncated if it exists
CreateFile(fs, path) ==
  IF \E i \in DOMAIN fs : fs[i].path = path
  THEN [i \in DOMAIN fs |->
          IF fs[i].path = path
          THEN [fs[i] EXCEPT !.lines = <<>>, !.buf = <<>>, !.open = TRUE]
          ELSE fs[i]]
  ELSE Append(fs, [path |-> path, lines |-> <<>>, buf |-> <<>>, open |-> TRUE, leaked |-> 0])

\* mutant of HandleFlush: nothing leaves the buffer
HandleFlush_Nothing(f) == f

\* handle.flush(): what the handle has buffered reaches the file
HandleFlush(f) == [f EXCEPT !.lines = @ \o f.buf, !.buf = <<>>]

\* open(..., buffering=1): the handle is line buffered
LineBuffered == TRUE

\* handle.write(line): the line is buffered, and a line buffered handle
\* flushes at the end of a line
HandleWrite(f, line) ==
  IF LineBuffered
  THEN HandleFlush([f EXCEPT !.buf = Append(@, line)])
  ELSE [f EXCEPT !.buf = Append(@, line)]

\* handle.write(json.dumps(obj) + "\n"); handle.flush()
AppendLine(fs, path, obj, origin) ==
  [i \in DOMAIN fs |->
     IF fs[i].path = path
     THEN HandleFlush(HandleWrite(fs[i], [rec |-> ToJson(obj), via |-> origin]))
     ELSE fs[i]]

\* handle.close(): the buffer is flushed and the stream closed
CloseFile(fs, path) ==
  [i \in DOMAIN fs |->
     IF fs[i].path = path THEN [HandleFlush(fs[i]) EXCEPT !.open = FALSE] ELSE fs[i]]

\* self._handles[run_id] = handle, for a run_id that has a handle: the old
\* handle is referenced no more and nothing closes it but the interpreter,
\* when it finalizes the object: at once (gc) or at some later time, until
\* which its stream stays open (leaked).  The file at newpath is held open
\* by the new handle.
DropHandle(hs, fs, run_id, newpath, gc) ==
  IF ~HasHandle(hs, run_id) THEN fs
  ELSE [i \in DOMAIN fs |->
          IF fs[i].path = HandlePath(hs, run_id)
          THEN [fs[i] EXCEPT !.open = (fs[i].path = newpath),
                             !.leaked = IF gc THEN @ ELSE @ + 1]
          ELSE fs[i]]

\* a stream on the file f is open
StreamOpen(f) == f.open \/ f.leaked > 0

\* trace_{run_id}_{timestamp}.jsonl, the timestamp to the second
FilePath(run_id, now) == [run |-> run_id, ts |-> now]

\* if metadata:
Truthy(metadata) == metadata.t = "map" /\ metadata.m # <<>>

MetaRecord(run_id, metadata, now) ==
  PyDict(Merge(<< KV(PyStr(str_record_type), PyStr(str_metadata)),
                  KV(PyStr(str_run_id), run_id),
                  KV(PyStr(str_timestamp), utcnow_iso(now)) >>,
               metadata.m))

\* FileSink.open(run_id, metadata), from the file opened (opened) on
OpenWrite(hs, opened, run_id, metadata, now, path) ==
  IF ~Truthy(metadata)
  THEN [exc |-> NoExc, handles |-> PutHandle(hs, run_id, path), files |-> opened, path |-> path]
  ELSE With(MetaRecord(run_id, metadata, now), LAMBDA meta_record :
       IF ~JsonSerializable(meta_record)
       THEN [exc |-> NotJsonError, handles |-> PutHandle(hs, run_id, path),
             files |-> opened, path |-> path]
       ELSE [exc |-> NoExc, handles |-> PutHandle(hs, run_id, path),
             files |-> AppendLine(opened, path, meta_record, [by |-> "open", raw |-> metadata]),
             path |-> path])

\* FileSink.open(run_id, metadata); gc: the interpreter finalizes a handle
\* as soon as it is unreferenced
SinkOpen(hs, fs, run_id, metadata, now, ioOk, gc) ==
  IF ~ioOk
  THEN [exc |-> IOError, handles |-> hs, files |-> fs, path |-> FilePath(run_id, now)]
  ELSE OpenWrite(hs, DropHandle(hs, CreateFile(fs, FilePath(run_id, now)), run_id,
                                FilePath(run_id, now), gc),
                 run_id, metadata, now, FilePath(run_id, now))

\* mutant of WriteTarget: every write goes to the first opened run
WriteTarget_First(hs, run_id) ==
  IF hs = <<>> THEN run_id ELSE hs[1].run

\* the run a write goes to: the first opened run if run_id is None
WriteTarget(hs, run_id) ==
  IF run_id = PyNone THEN hs[1].run ELSE run_id

\* if "timestamp" not in obj: obj["timestamp"] = ...
Stamped(obj, now) ==
  IF HasKey(obj.m, PyStr(str_timestamp)) THEN obj
  ELSE PyDict(Append(obj.m, KV(PyStr(str_timestamp), utcnow_iso(now))))

\* FileSink.write(obj, run_id)
SinkWrite(hs, fs, obj, run_id, now, ioOk, origin) ==
  IF run_id = PyNone /\ hs = <<>>
  THEN [exc |-> NoRunsError, files |-> fs]
  ELSE IF ~HasHandle(hs, WriteTarget(hs, run_id))
  THEN [exc |-> NoTraceError(WriteTarget(hs, run_id)), files |-> fs]
  ELSE IF ~JsonSerializable(Stamped(obj, now))
  THEN [exc |-> NotJsonError, files |-> fs]
  ELSE IF ~ioOk
  THEN [exc |-> IOError, files |-> fs]
  ELSE [exc |-> NoExc,
        files |-> AppendLine(fs, HandlePath(hs, WriteTarget(hs, run_id)),
                             Stamped(obj, now), origin)]

\* mutant of SinkClose: every run is closed, whatever run_id is
SinkClose_All(hs, fs, run_id) ==
  [handles |-> <<>>,
   files |-> [i \in DOMAIN fs |->
                IF \E j \in DOMAIN hs : hs[j].path = fs[i].path
                THEN [fs[i] EXCEPT !.open = FALSE] ELSE fs[i]]]

\* FileSink.close(run_id)
SinkClose(hs, fs, run_id) ==
  IF run_id = PyNone
  THEN [handles |-> <<>>,
        files |-> [i \in DOMAIN fs |->
                     IF \E j \in DOMAIN hs : hs[j].path = fs[i].path
                     THEN [HandleFlush(fs[i]) EXCEPT !.open = FALSE] ELSE fs[i]]]
  ELSE IF ~HasHandle(hs, run_id)
  THEN [handles |-> hs, files |-> fs]
  ELSE [handles |-> SelectSeq(hs, LAMBDA h : h.run # run_id),
        files |-> CloseFile(fs, HandlePath(hs, run_id))]

(***************************************************************************)
(* Trace (valiqor/trace.py).  The operations take the machine state m (the *)
(* sink and the instances) and return the state they leave and the         *)
(* exception they raise.                                                   *)
(***************************************************************************)
ErrorFields(e) ==
  PyDict(<< KV(PyStr(str_error), PyStr(e.msg)),
            KV(PyStr(str_error_type), PyStr(e.type)) >>)

\* mutant of WrapperFields: the status is "ok" whatever the call did
WrapperFields_AlwaysOk(e, d) ==
  PyDict(<< KV(PyStr(str_function), PyStr(str_my_function)),
            KV(PyStr(str_duration_ms), PyFloat(d * 1000)),
            KV(PyStr(str_status), PyStr(str_ok)),
            KV(PyStr(str_error), IF e # NoExc THEN PyStr(e.msg) ELSE PyNone) >>)

\* the fields the timing wrapper passes: e the error of the wrapped call
\* (NoExc if it returned), d its duration in seconds
WrapperFields(e, d) ==
  PyDict(<< KV(PyStr(str_function), PyStr(str_my_function)),
            KV(PyStr(str_duration_ms), PyFloat(d * 1000)),
            KV(PyStr(str_status), PyStr(IF e # NoExc THEN str_error ELSE str_ok)),
            KV(PyStr(str_error), IF e # NoExc THEN PyStr(e.msg) ELSE PyNone) >>)

\* every fields dict add_span is called with
SpanFieldSpace ==
  FieldInputs
  \cup { ErrorFields(e) : e \in Raisable }
  \cup { WrapperFields(e, d) : e \in {NoExc} \cup WrappedErrors, d \in {0} }

\* safe(fields), tabulated over SpanFieldSpace
SafeTable == [fields \in SpanFieldSpace |-> safe(fields, 0, DEFAULT_MAX_DEPTH)]

\* mutant of safe_fields: the fields are written as given
safe_fields_Raw(fields) == fields

\* safe_fields = safe(fields)
safe_fields(fields) == SafeTable[fields]

\* mutant of NoActiveSession: add_span does not check for a session
NoActiveSession_Unchecked(m, t) == FALSE

\* if self._active_run_id is None
NoActiveSession(m, t) == m.active[t] = PyNone

SpanRecord(m, t, name, fields, now) ==
  PyDict(Merge(<< KV(PyStr(str_record_type), PyStr(str_span)),
                  KV(PyStr(str_span_id), generate_id(str_span, m.nextSpan)),
                  KV(PyStr(str_run_id), m.active[t]),
                  KV(PyStr(str_name), PyStr(name)),
                  KV(PyStr(str_timestamp), utcnow_iso(now)) >>,
               safe_fields(fields).m))

\* Trace.add_span(name, **fields)
add_span(m, t, name, fields, now, ioOk) ==
  IF NoActiveSession(m, t)
  THEN [m |-> m, exc |-> NoSessionError]
  ELSE With(SpanRecord(m, t, name, fields, now), LAMBDA span :
       With(SinkWrite(m.handles, m.files, span, m.active[t], now, ioOk,
                      [by |-> "add_span", raw |-> fields]), LAMBDA w :
          IF w.exc # NoExc
          THEN [m |-> [m EXCEPT !.nextSpan = @ + 1], exc |-> w.exc]
          ELSE [m |-> [m EXCEPT !.files = w.files,
                                !.spans[t] = Append(@, span),
                                !.nextSpan = @ + 1],
                exc |-> NoExc]))

\* result = func(*args, **kwargs): my_function(5) returns x * 2
WrappedResult == PyInt(5 * 2)

\* the call returned nothing: it raised
NoResult == [t |-> "nothing"]

\* the timing wrapper of Trace.span(name) around a call that takes d seconds
\* and ends with the error e (NoExc if it returns): the exception the
\* wrapper's caller gets
wrapper(m, t, e, d, now, ioOk) ==
  With(add_span(m, t, str_test_function, WrapperFields(e, d), now, ioOk), LAMBDA r :
     [m |-> r.m,
      exc |-> IF r.exc # NoExc THEN InCtx(r.exc, "wrapper", PyNone) ELSE e,
      result |-> IF r.exc = NoExc /\ e = NoExc THEN WrappedResult ELSE NoResult])

SessionMeta(metadata) ==
  PyDict(Merge(<< KV(PyStr(str_app), APP), KV(PyStr(str_env), ENV) >>,
               IF metadata = PyNone THEN <<>> ELSE metadata.m))

\* mutant of session_enter: the in-memory span list is not reset
session_enter_KeepSpans(m, t, run_id, metadata, now, ioOk) ==
  With(SinkOpen(m.handles, m.files, run_id, SessionMeta(metadata), now, ioOk, TRUE), LAMBDA o :
     [m |-> [m EXCEPT !.active[t] = run_id,
                      !.start[t] = PyFloat(now),
                      !.handles = o.handles,
                      !.files = o.files],
      exc |-> o.exc,
      path |-> o.path])

\* Trace.session(metadata), up to the yield
session_enter(m, t, run_id, metadata, now, ioOk) ==
  With(SinkOpen(m.handles, m.files, run_id, SessionMeta(metadata), now, ioOk, TRUE), LAMBDA o :
     [m |-> [m EXCEPT !.active[t] = run_id,
                      !.start[t] = PyFloat(now),
                      !.spans[t] = <<>>,
                      !.handles = o.handles,
                      !.files = o.files],
      exc |-> o.exc,
      path |-> o.path])

\* mutant of SummaryRecord: the summary counts no span
SummaryRecord_NoCount(m, t, run_id, now) ==
  PyDict(<< KV(PyStr(str_record_type), PyStr(str_summary)),
            KV(PyStr(str_run_id), run_id),
            KV(PyStr(str_duration_ms), PyFloat((now - m.start[t].f) * 1000)),
            KV(PyStr(str_span_count), PyInt(0)),
            KV(PyStr(str_timestamp), utcnow_iso(now)) >>)

SummaryRecord(m, t, run_id, now) ==
  PyDict(<< KV(PyStr(str_record_type), PyStr(str_summary)),
            KV(PyStr(str_run_id), run_id),
            KV(PyStr(str_duration_ms), PyFloat((now - m.start[t].f) * 1000)),
            KV(PyStr(str_span_count), PyInt(Len(m.spans[t]))),
            KV(PyStr(str_timestamp), utcnow_iso(now)) >>)

\* mutant of session_except: the error is not recorded
session_except_NoRecord(m, t, run_id, body, now, ioOk) == [m |-> m, exc |-> body]

\* the except block of Trace.session: body is the exception the body raised
session_except(m, t, run_id, body, now, ioOk) ==
  IF body = NoExc THEN [m |-> m, exc |-> NoExc]
  ELSE With(add_span(m, t, str_session_error, ErrorFields(body), now, ioOk), LAMBDA r :
          [m |-> r.m,
           exc |-> IF r.exc # NoExc THEN InCtx(r.exc, "except", run_id) ELSE body])

\* the finally block of Trace.session: pending is the exception propagating
\* when it is entered
session_finally(m, t, run_id, pending, now, ioOk) ==
  IF m.start[t] = PyNone
  THEN [m |-> m, exc |-> InCtx(NoneStartError, "finally", run_id)]
  ELSE With(SinkWrite(m.handles, m.files, SummaryRecord(m, t, run_id, now),
                      run_id, now, ioOk, [by |-> "session", raw |-> PyNone]), LAMBDA w :
          IF w.exc # NoExc
          THEN [m |-> m, exc |-> InCtx(w.exc, "finally", run_id)]
          ELSE With(SinkClose(m.handles, w.files, run_id), LAMBDA c :
                  [m |-> [m EXCEPT !.handles = c.handles,
                                   !.files = c.files,
                                   !.active[t] = PyNone,
                                   !.start[t] = PyNone,
                                   !.spans[t] = <<>>],
                   exc |-> pending]))

\* Trace.session from the yield on: the scope fr is left with the exception
\* body propagating (NoExc if the body returned).  recorded is what the
\* except block raised.
session_exit(m, fr, body, now, ioRecord, ioSummary) ==
  With(session_except(m, fr.tr, fr.run, body, now, ioRecord), LAMBDA x :
  With(session_finally(x.m, fr.tr, fr.run, x.exc, now, ioSummary), LAMBDA f :
     [m |-> f.m, exc |-> f.exc, recorded |-> x.exc]))

(***************************************************************************)
(* The caller: what a program using the SDK does, one call at a time.      *)
(***************************************************************************)
Cur ==
  [handles |-> handles, files |-> files, active |-> active, start |-> start,
   spans |-> spans, nextSpan |-> nextSpan]

Install(m) ==
  /\ handles' = m.handles
  /\ files' = m.files
  /\ active' = m.active
  /\ start' = m.start
  /\ spans' = m.spans
  /\ nextSpan' = m.nextSpan

InSession(t) == \E i \in DOMAIN stack : stack[i].tr = t

\* what the operating system may do with an open or a write now
IoChoices == IF ioFailures < MaxIoFailures THEN BOOLEAN ELSE {TRUE}

\* 1 if e is the failure of an open or write raised at c, else 0
IoFailed(e, c) == IF e.type = str_OSError /\ e.ctx = c THEN 1 ELSE 0

SessInit ==
  /\ clock = 0
  /\ ioFailures = 0
  /\ handles = <<>>
  /\ files = <<>>
  /\ active = [t \in Traces |-> PyNone]
  /\ start = [t \in Traces |-> PyNone]
  /\ spans = [t \in Traces |-> <<>>]
  /\ stack = <<>>
  /\ exc = NoExc
  /\ nextRun = 1
  /\ nextSpan = 1
  /\ issued = 0
  /\ calls = [t \in Traces |-> <<>>]
  /\ last = [op |-> "init"]
  /\ alive = TRUE
  /\ since = <<>>

Init == red = RedactIdle /\ SessInit

\* the scopes of t that are open when t enters another one, or fails to,
\* are nested from now on (history)
MarkNested(st, t) ==
  [i \in DOMAIN st |-> IF st[i].tr = t THEN [st[i] EXCEPT !.nested = TRUE] ELSE st[i]]

\* with t.session(metadata): the scope is entered
EnterScope(t, metadata, ioOk) ==
  /\ alive
  /\ exc = NoExc
  /\ With(session_enter(Cur, t, generate_id(str_run, nextRun), metadata, clock, ioOk), LAMBDA r :
        /\ Install(r.m)
        /\ exc' = r.exc
        /\ ioFailures' = ioFailures + IoFailed(r.exc, "call")
        /\ stack' = IF r.exc = NoExc
                    THEN Append(MarkNested(stack, t),
                                [tr |-> t, run |-> generate_id(str_run, nextRun),
                                 path |-> r.path, nested |-> InSession(t)])
                    ELSE MarkNested(stack, t))
  /\ nextRun' = nextRun + 1
  /\ calls' = [calls EXCEPT ![t] = <<>>]
  /\ last' = [op |-> "enter", tr |-> t]
  /\ UNCHANGED <<red, alive, since, clock, issued>>

\* a program that does not enter a session on an instance that is inside
\* one of its own sessions
Enter(t, metadata, ioOk) ==
  /\ nextRun <= MaxRuns
  /\ ~InSession(t)
  /\ EnterScope(t, metadata, ioOk)

\* t.add_span("llm.call", **fields)
AddSpan(t, fields, ioOk) ==
  /\ alive
  /\ exc = NoExc
  /\ issued < MaxSpans
  /\ issued' = issued + 1
  /\ With(add_span(Cur, t, str_llm_call, fields, clock, ioOk), LAMBDA r :
        /\ Install(r.m)
        /\ exc' = r.exc
        /\ ioFailures' = ioFailures + IoFailed(r.exc, "call")
        /\ calls' = [calls EXCEPT ![t] =
                       Append(@, [id |-> generate_id(str_span, nextSpan), exc |-> r.exc])])
  /\ last' = [op |-> "add_span", tr |-> t, idle |-> active[t] = PyNone]
  /\ UNCHANGED <<red, alive, since, clock, stack, nextRun>>

\* a call of a function decorated with @t.span("test_function"), which
\* returns (e = NoExc) or raises e within the second
CallWrapped(t, e, ioOk) ==
  /\ alive
  /\ exc = NoExc
  /\ issued < MaxSpans
  /\ issued' = issued + 1
  /\ With(wrapper(Cur, t, e, 0, clock, ioOk), LAMBDA r :
        /\ Install(r.m)
        /\ exc' = r.exc
        /\ ioFailures' = ioFailures + IoFailed(r.exc, "wrapper")
        /\ calls' = [calls EXCEPT ![t] =
                       Append(@, [id |-> generate_id(str_span, nextSpan),
                                  exc |-> IF r.exc.ctx = "wrapper" THEN r.exc ELSE NoExc])]
        /\ last' = [op |-> "wrapped", tr |-> t, idle |-> active[t] = PyNone, outcome |-> e,
                     result |-> r.result])
  /\ UNCHANGED <<red, alive, since, clock, stack, nextRun>>

\* the body of the innermost session raises e
BodyRaise(e) ==
  /\ alive
  /\ exc = NoExc
  /\ stack # <<>>
  /\ exc' = e
  /\ last' = [op |-> "raise"]
  /\ UNCHANGED <<red, alive, since, clock, ioFailures, handles, files, active, start, spans,
                 stack, nextRun, nextSpan, issued, calls>>

\* the caller catches the propagating exception (try/except around the call)
Catch ==
  /\ alive
  /\ exc # NoExc
  /\ exc' = NoExc
  /\ last' = [op |-> "catch"]
  /\ UNCHANGED <<red, alive, since, clock, ioFailures, handles, files, active, start, spans,
                 stack, nextRun, nextSpan, issued, calls>>

\* the innermost session scope is left, by the body returning or by the
\* propagating exception
SessionExit(ioRecord, ioSummary) ==
  /\ alive
  /\ stack # <<>>
  /\ exc = NoExc => ioRecord
  /\ ioFailures + (IF ioRecord THEN 0 ELSE 1) + (IF ioSummary THEN 0 ELSE 1) <= MaxIoFailures
  /\ With(session_exit(Cur, stack[Len(stack)], exc, clock, ioRecord, ioSummary), LAMBDA r :
        /\ Install(r.m)
        /\ exc' = r.exc
        /\ ioFailures' = ioFailures + IoFailed(r.recorded, "except") + IoFailed(r.exc, "finally"))
  /\ last' = [op |-> "exit", tr |-> stack[Len(stack)].tr, run |-> stack[Len(stack)].run,
               path |-> stack[Len(stack)].path, body |-> exc,
               nested |-> stack[Len(stack)].nested]
  /\ stack' = SubSeq(stack, 1, Len(stack) - 1)
  /\ UNCHANGED <<red, alive, since, clock, nextRun, issued, calls>>

\* a second passes
Tick ==
  /\ alive
  /\ exc = NoExc
  /\ clock < MaxClock
  /\ clock' = clock + 1
  /\ last' = [op |-> "tick"]
  /\ UNCHANGED <<red, alive, since, ioFailures, handles, files, active, start, spans, stack, exc,
                 nextRun, nextSpan, issued, calls>>

\* the program is aborted: what its handles have buffered is lost and the
\* operating system closes its streams
Abort ==
  /\ alive
  /\ alive' = FALSE
  /\ files' = [i \in DOMAIN files |->
                 [files[i] EXCEPT !.buf = <<>>, !.open = FALSE, !.leaked = 0]]
  /\ last' = [op |-> "abort"]
  /\ UNCHANGED <<red, since, clock, ioFailures, handles, active, start, spans, stack, exc,
                 nextRun, nextSpan, issued, calls>>

Next ==
  \/ \E t \in Traces, metadata \in MetaInputs, ioOk \in IoChoices : Enter(t, metadata, ioOk)
  \/ \E t \in Traces, fields \in FieldInputs, ioOk \in IoChoices : AddSpan(t, fields, ioOk)
  \/ \E t \in Traces, e \in {NoExc} \cup WrappedErrors, ioOk \in IoChoices : CallWrapped(t, e, ioOk)
  \/ \E e \in BodyErrors : BodyRaise(e)
  \/ Catch
  \/ \E ioRecord \in IoChoices, ioSummary \in IoChoices : SessionExit(ioRecord, ioSummary)
  \/ Tick
  \/ Abort

Spec == Init /\ [][Next]_vars

(***************************************************************************)
(* One Trace instance whose program enters sessions one after another or   *)
(* one inside another.                                                     *)
(***************************************************************************)
\* a session is entered on the instance, inside one of its own or not
EnterAgain(metadata, ioOk) ==
  /\ nextRun <= MaxSessions
  /\ EnterScope("t1", metadata, ioOk)

NestNext ==
  \/ \E metadata \in MetaInputs, ioOk \in IoChoices : EnterAgain(metadata, ioOk)
  \/ \E fields \in FieldInputs, ioOk \in IoChoices : AddSpan("t1", fields, ioOk)
  \/ \E e \in BodyErrors : BodyRaise(e)
  \/ Catch
  \/ \E ioRecord \in IoChoices, ioSummary \in IoChoices : SessionExit(ioRecord, ioSummary)

SpecNest == Init /\ [][NestNext]_vars


(***************************************************************************)
(* The Sink on its own: a program that calls FileSink.open, write and      *)
(* close itself, handles every error at once (the error of the call is     *)
(* kept in last), and discards the Sink and makes a new one on the same    *)
(* directory.                                                              *)
(***************************************************************************)
\* the most calls of the Sink's methods
MaxSinkCalls == 5

str_A == <<"A">>
str_B == <<"B">>
str_x == <<"x">>

\* sink.open("A", ...), sink.open("B", ...)
SinkRuns == { PyStr(str_A), PyStr(str_B) }

\* the metadata argument of open: absent, empty, the docstring's, and one
\* that uses a key of the metadata record
SinkMetaInputs ==
  { PyNone,
    PyDict(<<>>),
    PyDict(<< KV(PyStr(str_app), PyStr(str_demo)) >>),
    PyDict(<< KV(PyStr(str_record_type), PyStr(str_span)) >>) }

\* the obj argument of write
SinkObjInputs ==
  { PyDict(<< KV(PyStr(str_x), PyInt(1)) >>),
    PyDict(<< KV(PyStr(str_tags), PySet({PyStr(seg_hi)})) >>) }

\* whether a handle that open() replaces is finalized at once: a choice of
\* the interpreter, and none if open() replaces no handle
GcChoices(run_id) == IF HasHandle(handles, run_id) THEN BOOLEAN ELSE {TRUE}

\* since, once run_id has a handle on path
SinceOpen(run_id, path) ==
  IF \E i \in DOMAIN since : since[i].run = run_id
  THEN [i \in DOMAIN since |->
          IF since[i].run = run_id THEN [run |-> run_id, path |-> path] ELSE since[i]]
  ELSE Append(since, [run |-> run_id, path |-> path])

\* path = sink.open(run_id, metadata)
SinkOpenCall(run_id, metadata, ioOk, gc) ==
  /\ alive
  /\ issued < MaxSinkCalls
  /\ issued' = issued + 1
  /\ With(SinkOpen(handles, files, run_id, metadata, clock, ioOk, gc), LAMBDA o :
        /\ handles' = o.handles
        /\ files' = o.files
        /\ ioFailures' = ioFailures + IoFailed(o.exc, "call")
        /\ since' = IF ioOk THEN SinceOpen(run_id, o.path) ELSE since
        /\ last' = [op |-> "sink.open", run |-> run_id, metadata |-> metadata,
                     path |-> o.path, exc |-> o.exc])
  /\ UNCHANGED <<red, alive, clock, active, start, spans, stack, exc, nextRun, nextSpan, calls>>

\* sink.write(obj, run_id), or sink.write(obj) if run_id is None
SinkWriteCall(obj, run_id, ioOk) ==
  /\ alive
  /\ issued < MaxSinkCalls
  /\ issued' = issued + 1
  /\ With(SinkWrite(handles, files, obj, run_id, clock, ioOk,
                    [by |-> "write", run |-> run_id, raw |-> obj]), LAMBDA w :
        /\ files' = w.files
        /\ ioFailures' = ioFailures + IoFailed(w.exc, "call")
        /\ last' = [op |-> "sink.write", run |-> run_id, obj |-> obj, exc |-> w.exc])
  /\ UNCHANGED <<red, alive, since, clock, handles, active, start, spans, stack, exc,
                 nextRun, nextSpan, calls>>

\* sink.close(run_id), or sink.close() if run_id is None
SinkCloseCall(run_id) ==
  /\ alive
  /\ issued < MaxSinkCalls
  /\ issued' = issued + 1
  /\ With(SinkClose(handles, files, run_id), LAMBDA c :
        /\ handles' = c.handles
        /\ files' = c.files)
  /\ since' = IF run_id = PyNone THEN <<>> ELSE SelectSeq(since, LAMBDA o : o.run # run_id)
  /\ last' = [op |-> "sink.close", run |-> run_id]
  /\ UNCHANGED <<red, alive, clock, ioFailures, active, start, spans, stack, exc,
                 nextRun, nextSpan, calls>>

\* FileSink.__del__: the Sink is discarded; the program goes on with a new
\* FileSink on the same directory
SinkDiscard ==
  /\ alive
  /\ issued < MaxSinkCalls
  /\ issued' = issued + 1
  /\ With(SinkClose(handles, files, PyNone), LAMBDA c :
        /\ handles' = c.handles
        /\ files' = c.files)
  /\ since' = <<>>
  /\ last' = [op |-> "sink.del"]
  /\ UNCHANGED <<red, alive, clock, ioFailures, active, start, spans, stack, exc,
                 nextRun, nextSpan, calls>>

\* the interpreter finalizes the handles that are referenced no more
Collect ==
  /\ alive
  /\ \E i \in DOMAIN files : files[i].leaked > 0
  /\ files' = [i \in DOMAIN files |-> [files[i] EXCEPT !.leaked = 0]]
  /\ last' = [op |-> "collect"]
  /\ UNCHANGED <<red, alive, since, clock, ioFailures, handles, active, start, spans, stack,
                 exc, nextRun, nextSpan, issued, calls>>

SinkNext ==
  \/ \E run_id \in SinkRuns, metadata \in SinkMetaInputs, ioOk \in IoChoices :
        \E gc \in GcChoices(run_id) : SinkOpenCall(run_id, metadata, ioOk, gc)
  \/ \E obj \in SinkObjInputs, run_id \in SinkRuns \cup {PyNone}, ioOk \in IoChoices :
        SinkWriteCall(obj, run_id, ioOk)
  \/ \E run_id \in SinkRuns \cup {PyNone} : SinkCloseCall(run_id)
  \/ SinkDiscard
  \/ Collect
  \/ Tick

SpecSink == Init /\ [][SinkNext]_vars
(***************************************************************************)
(* The Redactor on its own.                                                *)
(***************************************************************************)
RedactInit ==
  /\ red \in { [pc |-> "start", inp |-> x] : x \in RedactInputs }
  /\ SessInit

\* out = sanitize(inp)
Sanitize ==
  /\ red.pc = "start"
  /\ red' = [pc |-> "once", inp |-> red.inp, out |-> sanitize(red.inp)]
  /\ UNCHANGED sessVars

\* again = sanitize(out)
SanitizeAgain ==
  /\ red.pc = "once"
  /\ red' = [pc |-> "twice", inp |-> red.inp, out |-> red.out, again |-> sanitize(red.out)]
  /\ UNCHANGED sessVars

RedactNext == Sanitize \/ SanitizeAgain

SpecRedact == RedactInit /\ [][RedactNext]_vars


(***************************************************************************)
(* safe() on objects that have an identity: the heap is a sequence of      *)
(* objects, a container holds the numbers of its items, so a container can *)
(* hold itself.  The call of safe on object 1 is run one step at a time:   *)
(* red.stack holds the calls that are in a container's loop, innermost     *)
(* last, each with the results of the items done so far.                   *)
(***************************************************************************)
HeapLeaf(v) == [t |-> "leaf", v |-> v]
HeapList(kids) == [t |-> "list", kids |-> kids]
HeapDict(keys, kids) == [t |-> "map", keys |-> keys, kids |-> kids]

\* l = []; l.append(l)
\* d = {}; d["inner"] = [d, "this is fine"]
\* d = {}; d["api_key"] = d; d["inner"] = d
\* x = ["hi"]; [x, x]
\* "hi" in MaxNesting lists
HeapInputs ==
  { << HeapList(<<1>>) >>,
    << HeapDict(<<PyStr(str_inner)>>, <<2>>), HeapList(<<1, 3>>),
       HeapLeaf(PyStr(str_this_is_fine)) >>,
    << HeapDict(<<PyStr(str_api_key), PyStr(str_inner)>>, <<1, 1>>) >>,
    << HeapList(<<2, 2>>), HeapList(<<3>>), HeapLeaf(PyStr(seg_hi)) >>,
    [n \in 1..(MaxNesting + 1) |->
       IF n <= MaxNesting THEN HeapList(<<n + 1>>) ELSE HeapLeaf(PyStr(seg_hi))] }

\* the values in the heaps that are no containers
HeapLeaves == { PyStr(str_this_is_fine), PyStr(seg_hi) }

\* safe(v, depth, max_depth) of a value that is no container, once the depth
\* guard has let it through: the result does not depend on the depth
SafeLeaf == [v \in HeapLeaves |-> safe(v, 0, DEFAULT_MAX_DEPTH)]

WalkInit ==
  /\ red \in { [pc |-> "call", heap |-> h, stack |-> <<>>, node |-> 1, depth |-> 0,
                deepest |-> 0, ret |-> PyNone] : h \in HeapInputs }
  /\ SessInit

\* safe(obj, depth, max_depth) is called in r: beyond max_depth it returns
\* the marker, a value that is no container is returned sanitized, and a
\* container's loop is started
safe_enter(r) ==
  IF TooDeep(r.depth, DEFAULT_MAX_DEPTH)
  THEN [r EXCEPT !.pc = "return", !.ret = PyStr(MaxDepthMarker),
                 !.deepest = MaxOf({@, r.depth})]
  ELSE IF r.heap[r.node].t = "leaf"
  THEN [r EXCEPT !.pc = "return",
                 !.ret = SafeLeaf[r.heap[r.node].v],
                 !.deepest = MaxOf({@, r.depth})]
  ELSE [r EXCEPT !.pc = "loop",
                 !.stack = Append(@, [node |-> r.node, depth |-> r.depth, done |-> <<>>]),
                 !.deepest = MaxOf({@, r.depth})]

safe_call ==
  /\ red.pc = "call"
  /\ red' = safe_enter(red)
  /\ UNCHANGED sessVars

\* the next item of the innermost container: the value of a sensitive key is
\* the marker, any other item is passed to safe one level deeper
safe_item ==
  /\ red.pc = "loop"
  /\ With(red.stack[Len(red.stack)], LAMBDA fr :
     With(red.heap[fr.node], LAMBDA obj :
        /\ Len(fr.done) < Len(obj.kids)
        /\ red' = IF obj.t = "map" /\ IsSensitiveKey(obj.keys[Len(fr.done) + 1])
                  THEN [red EXCEPT !.stack[Len(red.stack)].done = Append(@, PyStr(Marker))]
                  ELSE [red EXCEPT !.pc = "call",
                                   !.node = obj.kids[Len(fr.done) + 1],
                                   !.depth = fr.depth + 1]))
  /\ UNCHANGED sessVars

\* the loop of the innermost container is over: its copy is returned
safe_return ==
  /\ red.pc = "loop"
  /\ With(red.stack[Len(red.stack)], LAMBDA fr :
     With(red.heap[fr.node], LAMBDA obj :
        /\ Len(fr.done) = Len(obj.kids)
        /\ red' = [red EXCEPT
                     !.pc = "return",
                     !.stack = SubSeq(@, 1, Len(@) - 1),
                     !.ret = IF obj.t = "map"
                             THEN PyDict([i \in DOMAIN obj.kids |-> KV(obj.keys[i], fr.done[i])])
                             ELSE PyList(fr.done)]))
  /\ UNCHANGED sessVars

\* a call has returned: to the loop that made it, or to the caller of
\* sanitize
safe_resume ==
  /\ red.pc = "return"
  /\ red' = IF red.stack = <<>>
            THEN [red EXCEPT !.pc = "done"]
            ELSE [red EXCEPT !.pc = "loop",
                             !.stack[Len(red.stack)].done = Append(@, red.ret)]
  /\ UNCHANGED sessVars

WalkNext == safe_call \/ safe_item \/ safe_return \/ safe_resume

\* a call that has started keeps running
SpecWalk == WalkInit /\ [][WalkNext]_vars /\ WF_vars(WalkNext)

(***************************************************************************)
(* context_scanner.py: scan_repo on a directory tree, one file at a time.  *)
(* The tree is what os.walk yields once the ignored directories are        *)
(* pruned: the directories in walk order, each with its files; the scan    *)
(* learns it as it goes.  Of a directory the scan uses whether its         *)
(* relative path names a prompt directory; of a file its extension,        *)
(* whether its name holds "prompt" or "template", whether stat() succeeds  *)
(* on it, and its size.  red.hit records that a file met the limit.        *)
(***************************************************************************)
\* the most directories of a tree, files of a directory, and the largest
\* max_files
MaxDirs == 2
MaxDirFiles == 2
MaxLimit == 2

\* the default extensions (four of them)
ALLOWED_EXTENSIONS == {".py", ".json", ".md", ".txt"}

\* main.py, system_prompt.txt, a binary, and a file stat() fails on
FileInputs ==
  { [ext |-> ".py", prompt |-> FALSE, stat |-> TRUE, size |-> 14],
    [ext |-> ".txt", prompt |-> TRUE, stat |-> TRUE, size |-> 27],
    [ext |-> ".bin", prompt |-> FALSE, stat |-> TRUE, size |-> 3],
    [ext |-> ".md", prompt |-> FALSE, stat |-> FALSE, size |-> 0] }

\* scan_repo(repo_dir, out_path, max_files=...) up to the walk
ScanInit ==
  /\ red \in { [pc |-> "walk", max_files |-> max_files, root |-> 0, file |-> 0,
                is_prompt_dir |-> FALSE, file_count |-> 0, total_size |-> 0,
                files |-> <<>>, prompts |-> <<>>, hit |-> FALSE] :
               max_files \in 0..MaxLimit }
  /\ SessInit

\* mutant of AtLimit: the limit is met one file late
AtLimit_Late(file_count, max_files) == file_count > max_files

\* if file_count >= max_files
AtLimit(file_count, max_files) == file_count >= max_files

\* the entry of the file number f of the directory number d
file_info(d, f, file) ==
  [path |-> <<d, f>>, size_bytes |-> file.size, extension |-> file.ext]

\* one iteration of "for file in files" on r
scan_step(r, file) ==
  IF file.ext \notin ALLOWED_EXTENSIONS THEN [r EXCEPT !.file = @ + 1]
  ELSE IF AtLimit(r.file_count, r.max_files)
  THEN [r EXCEPT !.pc = "break", !.hit = TRUE]
  ELSE IF ~file.stat THEN [r EXCEPT !.file = @ + 1]
  ELSE [r EXCEPT !.file = @ + 1,
                 !.files = Append(@, file_info(r.root, r.file + 1, file)),
                 !.prompts = IF r.is_prompt_dir \/ file.prompt
                             THEN Append(@, file_info(r.root, r.file + 1, file)) ELSE @,
                 !.total_size = @ + file.size,
                 !.file_count = @ + 1]

\* os.walk yields the next directory
scan_root(is_prompt_dir) ==
  /\ red.pc = "walk"
  /\ red.root < MaxDirs
  /\ red' = [red EXCEPT !.pc = "files", !.root = @ + 1, !.file = 0,
                        !.is_prompt_dir = is_prompt_dir]
  /\ UNCHANGED sessVars

\* the directory has one more file
scan_file(file) ==
  /\ red.pc = "files"
  /\ red.file < MaxDirFiles
  /\ red' = scan_step(red, file)
  /\ UNCHANGED sessVars

\* the loop over the files of a directory is over: the walk ends at the
\* limit, or goes on
scan_next_root ==
  /\ red.pc \in {"files", "break"}
  /\ red' = IF AtLimit(red.file_count, red.max_files)
            THEN [red EXCEPT !.pc = "summary"]
            ELSE [red EXCEPT !.pc = "walk"]
  /\ UNCHANGED sessVars

\* the walk is over: the summary is filled in and the map returned
scan_summary ==
  /\ red.pc \in {"walk", "summary"}
  /\ red' = [pc |-> "done", max_files |-> red.max_files, hit |-> red.hit,
             context_map |-> [file_count |-> red.file_count,
                              total_size_bytes |-> red.total_size,
                              files |-> red.files,
                              prompts |-> red.prompts]]
  /\ UNCHANGED sessVars

ScanNext ==
  \/ \E is_prompt_dir \in BOOLEAN : scan_root(is_prompt_dir)
  \/ \E file \in FileInputs : scan_file(file)
  \/ scan_next_root
  \/ scan_summary

SpecScan == ScanInit /\ [][ScanNext]_vars
(***************************************************************************)
(* Properties of the Redactor (checked under SpecRedact).                  *)
(***************************************************************************)
Contains(s, sub) ==
  \E i \in 1..(Len(s) - Len(sub) + 1) : SubSeq(s, i, i + Len(sub) - 1) = sub

\* the texts pattern number k recognizes in s: its match at every position
\* where it has one
TokensOf(k, s) ==
  { SubSeq(s, j, Ends(PATTERNS[k].re, s, j, PATTERNS[k].ic)[1] - 1) :
      j \in { i \in 1..Len(s) : Ends(PATTERNS[k].re, s, i, PATTERNS[k].ic) # <<>> } }

\* no detection pattern matches anywhere in s
NoPattern(s) == \A k \in DOMAIN PATTERNS : MatchStart(PATTERNS[k], s, 1) = 0

\* the claims' reading of "a key whose lower-cased form is a sensitive key"
LowerIsSensitive(key) == key.t = "str" /\ LowerStr(key.s) \in SENSITIVE_KEYS

\* a value with no sensitive key and no sensitive pattern in it
RECURSIVE IsClean(_)
IsClean(v) ==
  CASE v.t = "str" -> NoPattern(v.s)
    [] v.t = "obj" -> NoPattern(v.repr)
    [] v.t = "map" -> \A i \in DOMAIN v.m : ~LowerIsSensitive(v.m[i].k) /\ IsClean(v.m[i].v)
    [] v.t = "list" -> \A i \in DOMAIN v.l : IsClean(v.l[i])
    [] v.t = "tuple" -> \A i \in DOMAIN v.tu : IsClean(v.tu[i])
    [] v.t = "set" -> \A x \in v.e : IsClean(x)
    [] OTHER -> TRUE

\* a value made of None, booleans, numbers, strings and containers only
RECURSIVE IsPlain(_)
IsPlain(v) ==
  CASE v.t \in {"obj", "badobj"} -> FALSE
    [] v.t = "map" -> \A i \in DOMAIN v.m : IsPlain(v.m[i].v)
    [] v.t = "list" -> \A i \in DOMAIN v.l : IsPlain(v.l[i])
    [] v.t = "tuple" -> \A i \in DOMAIN v.tu : IsPlain(v.tu[i])
    [] v.t = "set" -> \A x \in v.e : IsPlain(x)
    [] OTHER -> TRUE

\* how many containers deep a value nests (0 for a value that is no container)
RECURSIVE Height(_)
Height(v) ==
  CASE v.t = "map" -> 1 + MaxOf({0} \cup {Height(v.m[i].v) : i \in DOMAIN v.m})
    [] v.t = "list" -> 1 + MaxOf({0} \cup {Height(v.l[i]) : i \in DOMAIN v.l})
    [] v.t = "tuple" -> 1 + MaxOf({0} \cup {Height(v.tu[i]) : i \in DOMAIN v.tu})
    [] v.t = "set" -> 1 + MaxOf({0} \cup {Height(x) : x \in v.e})
    [] OTHER -> 0

\* C8 as claimed, of an input and its output: in every mapping at any nesting
\* level a sensitive key's value is the marker, and a clean value under a
\* non-sensitive key is unchanged
RECURSIVE KeysRedactedAnywhere(_, _)
KeysRedactedAnywhere(in, out) ==
  CASE in.t = "map" ->
         /\ out.t = "map" /\ Len(out.m) = Len(in.m)
         /\ \A i \in DOMAIN in.m :
              /\ out.m[i].k = in.m[i].k
              /\ IF LowerIsSensitive(in.m[i].k) THEN out.m[i].v = PyStr(Marker)
                 ELSE /\ KeysRedactedAnywhere(in.m[i].v, out.m[i].v)
                      /\ IsClean(in.m[i].v) => out.m[i].v = in.m[i].v
    [] in.t = "list" ->
         /\ out.t = "list" /\ Len(out.l) = Len(in.l)
         /\ \A i \in DOMAIN in.l : KeysRedactedAnywhere(in.l[i], out.l[i])
    [] in.t = "tuple" ->
         /\ out.t = "tuple" /\ Len(out.tu) = Len(in.tu)
         /\ \A i \in DOMAIN in.tu : KeysRedactedAnywhere(in.tu[i], out.tu[i])
    [] OTHER -> TRUE

\* C8 as amended: the same down to max_depth, the max-depth marker below it,
\* and a clean value unchanged when it is plain and fits within max_depth
RECURSIVE KeysRedactedToDepth(_, _, _)
KeysRedactedToDepth(in, out, depth) ==
  IF depth > DEFAULT_MAX_DEPTH THEN out = PyStr(MaxDepthMarker)
  ELSE CASE in.t = "map" ->
         /\ out.t = "map" /\ Len(out.m) = Len(in.m)
         /\ \A i \in DOMAIN in.m :
              /\ out.m[i].k = in.m[i].k
              /\ IF LowerIsSensitive(in.m[i].k) THEN out.m[i].v = PyStr(Marker)
                 ELSE /\ KeysRedactedToDepth(in.m[i].v, out.m[i].v, depth + 1)
                      /\ ( /\ IsClean(in.m[i].v) /\ IsPlain(in.m[i].v)
                           /\ depth + 1 + Height(in.m[i].v) <= DEFAULT_MAX_DEPTH )
                         => out.m[i].v = in.m[i].v
    [] in.t = "list" ->
         /\ out.t = "list" /\ Len(out.l) = Len(in.l)
         /\ \A i \in DOMAIN in.l : KeysRedactedToDepth(in.l[i], out.l[i], depth + 1)
    [] in.t = "tuple" ->
         /\ out.t = "tuple" /\ Len(out.tu) = Len(in.tu)
         /\ \A i \in DOMAIN in.tu : KeysRedactedToDepth(in.tu[i], out.tu[i], depth + 1)
    [] OTHER -> TRUE

\* C8 (as claimed): for every mapping given to sanitize, at any nesting level,
\* each key whose lower-cased form is a sensitive key has its value replaced
\* wholly by the redaction marker, and values under non-sensitive keys that
\* contain no sensitive pattern are preserved unchanged.  (Stated of inputs
\* made of None, booleans, numbers, strings and containers: an object of
\* another type is replaced by its string form on purpose.)
C8_AnyNesting ==
  (red.pc = "once" /\ IsPlain(red.inp)) => KeysRedactedAnywhere(red.inp, red.out)

\* C8 (amended): in every mapping sanitize reaches at a depth of at most
\* max_depth each sensitive key's value is replaced wholly by the redaction
\* marker whatever its type; a value reached below max_depth is replaced
\* wholly by the max-depth marker; a value under a non-sensitive key with no
\* sensitive key or pattern in it is preserved unchanged when it is made of
\* None, booleans, numbers, strings and containers only and fits within
\* max_depth.
C8_WithinMaxDepth ==
  red.pc = "once" => KeysRedactedToDepth(red.inp, red.out, 0)

\* C8 witness: an upper-case sensitive key two containers deep, holding a
\* number, comes out with the marker, beside a preserved clean value.
C8_Witness ==
  /\ red.pc = "once"
  /\ red.inp = Nest(PyDict(<<KV(PyStr(str_API_KEY), PyInt(7))>>), 2)
  /\ red.out = Nest(PyDict(<<KV(PyStr(str_API_KEY), PyStr(Marker))>>), 2)

\* C9: sanitize is idempotent: sanitize(sanitize(x)) = sanitize(x) for all x.
C9_Idempotent ==
  red.pc = "twice" => red.again = red.out

FileAt(path) == files[CHOOSE i \in DOMAIN files : files[i].path = path]

Field(line, key) == Lookup(line.rec.m, PyStr(key))

\* the line was written by FileSink.open for the run's metadata (what it is
\* tagged as is the matter of C19)
IsMetadataLine(line) == line.via.by = "open"

\* the line was written for a call of add_span (what it is tagged as is the
\* matter of C19)
IsSpanLine(line) == line.via.by = "add_span"

IsSummaryLine(line) ==
  line.via.by = "session" /\ Field(line, str_record_type) = PyStr(str_summary)

\* the session.error span of the error e: its message and type, as the
\* Redactor returns them
IsErrorLine(line, e) ==
  /\ IsSpanLine(line)
  /\ Field(line, str_name) = PyStr(str_session_error)
  /\ Field(line, str_error) = Lookup(SafeTable[ErrorFields(e)].m, PyStr(str_error))
  /\ Field(line, str_error_type) = PyStr(e.type)

\* a session scope has just been left
AtExit == last.op = "exit"

ExitLines == FileAt(last.path).lines

\* the stream of the session just left is closed
ExitClosed == ~HasHandle(handles, last.run) /\ ~FileAt(last.path).open

\* the instance of the session just left is IDLE
ExitReset ==
  /\ active[last.tr] = PyNone
  /\ start[last.tr] = PyNone
  /\ spans[last.tr] = <<>>

IdsOf(cs) == [k \in DOMAIN cs |-> cs[k].id]

\* the add_span calls that returned normally
Returned(cs) == SelectSeq(cs, LAMBDA c : c.exc = NoExc)

\* the add_span calls issued before the body raised e: all of them, but
\* for a last call that is itself what raised e
BeforeRaise(cs, e) ==
  IF cs # <<>> /\ cs[Len(cs)].exc # NoExc /\ cs[Len(cs)].exc = e
  THEN SubSeq(cs, 1, Len(cs) - 1)
  ELSE cs

\* lines is: the metadata line, the span lines of ids in that order, extra
\* more lines, and the summary line
StreamIs(lines, ids, extra) ==
  /\ Len(lines) = Len(ids) + extra + 2
  /\ IsMetadataLine(lines[1])
  /\ \A k \in DOMAIN ids :
        IsSpanLine(lines[k + 1]) /\ Field(lines[k + 1], str_span_id) = ids[k]
  /\ IsSummaryLine(lines[Len(lines)])

\* C1, as stated: a session that completes without the body raising, in
\* which add_span was called N times, has a stream of N+2 lines: metadata,
\* the N spans in call order, the summary, whose span_count is N.
C1_EveryCallCounted ==
  (AtExit /\ last.body = NoExc /\ exc = NoExc) =>
     /\ StreamIs(ExitLines, IdsOf(calls[last.tr]), 0)
     /\ Field(ExitLines[Len(ExitLines)], str_span_count) = PyInt(Len(calls[last.tr]))

\* C1, amended: a session that is left without an error, in which N calls
\* of add_span returned normally, has a stream of N+2 lines: metadata, the
\* spans of those N calls in call order, the summary, whose span_count is N.
C1_ReturnedCallsCounted ==
  (AtExit /\ last.body = NoExc /\ exc = NoExc) =>
     /\ StreamIs(ExitLines, IdsOf(Returned(calls[last.tr])), 0)
     /\ Field(ExitLines[Len(ExitLines)], str_span_count)
          = PyInt(Len(Returned(calls[last.tr])))

\* a session with two add_span calls that returned has been left without
\* an error
C1_Witness ==
  /\ AtExit
  /\ last.body = NoExc
  /\ exc = NoExc
  /\ Len(Returned(calls[last.tr])) = 2
  /\ Len(ExitLines) = 4

\* C2, as stated: on every path by which a session scope is left, the
\* summary has been written, the run's stream is closed and the instance is
\* IDLE again.
C2_TeardownUnconditional ==
  AtExit =>
     /\ ExitLines # <<>>
     /\ IsSummaryLine(ExitLines[Len(ExitLines)])
     /\ ExitClosed
     /\ ExitReset

C4_OriginalErrorObserved ==
  (AtExit /\ last.body # NoExc) => (exc = last.body /\ ExitClosed)

\* C5: add_span called (directly or by the timing wrapper) on an instance
\* with no active session raises the no-active-session RuntimeError and
\* changes no stream, no file, no handle and nothing of any instance.
C5_IdleAddSpanFails ==
  [][ (last'.op \in {"add_span", "wrapped"} /\ last'.idle) =>
        /\ exc'.type = str_RuntimeError
        /\ exc'.msg = msg_no_session
        /\ UNCHANGED <<handles, files, active, start, spans>> ]_vars

\* add_span has just failed on an idle instance while the run of the other
\* instance is open
C5_Witness ==
  /\ last.op = "add_span"
  /\ last.idle
  /\ exc = NoSessionError
  /\ handles # <<>>
  /\ \E t \in Traces : active[t] # PyNone

\* C6: in every span line of every file (written for add_span, for the
\* timing wrapper or as session.error) the value of each field the caller
\* passed is the Redactor's output for it.
C6_SpanFieldsSanitized ==
  \A i \in DOMAIN files : \A k \in DOMAIN files[i].lines :
     files[i].lines[k].via.by = "add_span" =>
        \A j \in DOMAIN files[i].lines[k].via.raw.m :
           /\ HasKey(files[i].lines[k].rec.m, files[i].lines[k].via.raw.m[j].k)
           /\ Lookup(files[i].lines[k].rec.m, files[i].lines[k].via.raw.m[j].k)
                = ToJson(Lookup(SafeTable[files[i].lines[k].via.raw].m,
                                files[i].lines[k].via.raw.m[j].k))

\* a file holds a span whose api_key was given as a token and is the marker
\* on disk, a span of the timing wrapper, and a session.error span whose
\* message held the token
C6_Witness ==
  \E i \in DOMAIN files :
     /\ \E k \in DOMAIN files[i].lines :
           /\ files[i].lines[k].via.by = "add_span"
           /\ HasKey(files[i].lines[k].via.raw.m, PyStr(str_api_key))
           /\ Lookup(files[i].lines[k].via.raw.m, PyStr(str_api_key)) = PyStr(seg_sk_token)
           /\ Field(files[i].lines[k], str_api_key) = PyStr(Marker)
     /\ \E k \in DOMAIN files[i].lines :
           /\ files[i].lines[k].via.by = "add_span"
           /\ Field(files[i].lines[k], str_name) = PyStr(str_test_function)
     /\ \E k \in DOMAIN files[i].lines :
           /\ files[i].lines[k].via.by = "add_span"
           /\ Field(files[i].lines[k], str_name) = PyStr(str_session_error)
           /\ Field(files[i].lines[k], str_error) = PyStr(msg_bad_token \o Marker)

\* the secrets the caller passes
Secrets == { seg_sk_token, seg_secretpass }

RECURSIVE HasSecret(_)
HasSecret(v) ==
  CASE v.t = "str" -> \E s \in Secrets : Contains(v.s, s)
    [] v.t = "map" -> \E i \in DOMAIN v.m : HasSecret(v.m[i].k) \/ HasSecret(v.m[i].v)
    [] v.t = "list" -> \E i \in DOMAIN v.l : HasSecret(v.l[i])
    [] OTHER -> FALSE

\* C7, as stated: no record on disk (metadata, span or summary) holds a
\* secret the caller passed in its original form.
C7_NoSecretOnDisk ==
  \A i \in DOMAIN files : \A k \in DOMAIN files[i].lines :
     ~HasSecret(files[i].lines[k].rec)


(***************************************************************************)
(* C11 .. C20                                                              *)
(***************************************************************************)
\* the file of the scope fr holds what has been written for it: nothing is
\* left in a buffer, the first line is the metadata line, the lines after
\* it are those of the add_span calls of its instance that returned, in
\* call order, and there is no summary line
FrameFlushed(fr) ==
  /\ FileAt(fr.path).buf = <<>>
  /\ Len(FileAt(fr.path).lines) = Len(Returned(calls[fr.tr])) + 1
  /\ IsMetadataLine(FileAt(fr.path).lines[1])
  /\ \A k \in DOMAIN Returned(calls[fr.tr]) :
        /\ IsSpanLine(FileAt(fr.path).lines[k + 1])
        /\ Field(FileAt(fr.path).lines[k + 1], str_span_id) = Returned(calls[fr.tr])[k].id
  /\ \A k \in DOMAIN FileAt(fr.path).lines : ~IsSummaryLine(FileAt(fr.path).lines[k])

\* C11: between any two calls, and after the program has been aborted, no
\* record is left in a handle's buffer: the file of every session scope
\* that has not been left holds the metadata line and the line of every
\* add_span call that returned, and no summary line.
C11_FlushedBeforeReturn ==
  /\ \A i \in DOMAIN files : files[i].buf = <<>>
  /\ \A k \in DOMAIN stack : FrameFlushed(stack[k])

\* the program has been aborted inside a session after two add_span calls
\* returned: the file holds the metadata line and their two lines
C11_Witness ==
  /\ ~alive
  /\ stack # <<>>
  /\ Len(Returned(calls[stack[1].tr])) = 2
  /\ Len(FileAt(stack[1].path).lines) = 3
  /\ ~FileAt(stack[1].path).open

\* run_id is open: it has been opened and not closed since
IsOpenRun(run_id) == \E i \in DOMAIN since : since[i].run = run_id

\* C12: a write to a run_id that is not open (never opened, or closed
\* since), and a write without run_id while no run is open, raise
\* ValueError to the caller, append nothing to any file and leave the open
\* runs as they are.
C12_WriteToClosedRunFails ==
  [][ ( /\ last'.op = "sink.write"
        /\ IF last'.run = PyNone THEN since = <<>> ELSE ~IsOpenRun(last'.run) )
      => /\ last'.exc = IF last'.run = PyNone THEN NoRunsError ELSE NoTraceError(last'.run)
         /\ last'.exc.type = str_ValueError
         /\ UNCHANGED <<files, handles>> ]_vars

\* a write to run A, opened and closed before, has failed while B is open
C12_Witness ==
  /\ last.op = "sink.write"
  /\ last.run = PyStr(str_A)
  /\ last.exc = NoTraceError(PyStr(str_A))
  /\ \E i \in DOMAIN files : files[i].path.run = PyStr(str_A) /\ ~files[i].open
  /\ IsOpenRun(PyStr(str_B))

\* the file at path has got one more line, written for the write of obj,
\* and every other file is as it was
AppendedTo(path, obj) ==
  /\ DOMAIN files' = DOMAIN files
  /\ \A i \in DOMAIN files :
        IF files[i].path = path
        THEN /\ Len(files'[i].lines) = Len(files[i].lines) + 1
             /\ SubSeq(files'[i].lines, 1, Len(files[i].lines)) = files[i].lines
             /\ files'[i].lines[Len(files'[i].lines)].via.raw = obj
             /\ files'[i].open = files[i].open
        ELSE files'[i] = files[i]

\* C13: a write without run_id while runs are open does not fail for want
\* of a run, and appends the record to the stream of the run that has been
\* open longest among the open runs: a run_id that is opened again while
\* open keeps its place, one that is closed and opened again goes last.
C13_WritesToFirstOpened ==
  [][ (last'.op = "sink.write" /\ last'.run = PyNone /\ since # <<>>)
      => /\ last'.exc.type # str_ValueError
         /\ last'.exc = NoExc => AppendedTo(since[1].path, last'.obj)
         /\ last'.exc # NoExc => UNCHANGED files ]_vars

\* a write without run_id has gone to run A, which was opened first, then B
\* was opened, then A was opened again a second later
C13_Witness ==
  /\ last.op = "sink.write"
  /\ last.run = PyNone
  /\ last.exc = NoExc
  /\ Len(since) = 2
  /\ since[1].run = PyStr(str_A)
  /\ since[1].path.ts = 1
  /\ since[2].path.ts = 0
  /\ FileAt(since[1].path).lines # <<>>
  /\ FileAt(since[1].path).lines[Len(FileAt(since[1].path).lines)].via.by = "write"
  /\ \E i \in DOMAIN files : files[i].path = [run |-> PyStr(str_A), ts |-> 0]

\* close(run_id) is to release the stream at path: that of run_id, or of
\* any open run if run_id is None
Released(path, run_id) ==
  \E k \in DOMAIN since :
     since[k].path = path /\ (run_id = PyNone \/ since[k].run = run_id)

\* C14: close(run_id) closes the stream of run_id and takes it from the
\* open runs, and no other; close() does so for every open run; for a
\* run_id that is not open it changes nothing (so a second close changes
\* nothing); no file's content changes.
C14_CloseReleasesOnlyThatRun ==
  [][ last'.op = "sink.close"
      => /\ DOMAIN files' = DOMAIN files
         /\ \A i \in DOMAIN files :
               /\ files'[i].path = files[i].path
               /\ files'[i].lines = files[i].lines
               /\ files'[i].leaked = files[i].leaked
               /\ files'[i].open = (files[i].open /\ ~Released(files[i].path, last'.run))
         /\ handles' = SelectSeq(handles, LAMBDA h : last'.run # PyNone /\ h.run # last'.run) ]_vars

\* close("A") has closed A's stream, which holds a record, while B's stream
\* stays open
C14_Witness ==
  /\ last.op = "sink.close"
  /\ last.run = PyStr(str_A)
  /\ ~IsOpenRun(PyStr(str_A))
  /\ IsOpenRun(PyStr(str_B))
  /\ \E i \in DOMAIN files :
        files[i].path.run = PyStr(str_A) /\ ~files[i].open /\ files[i].lines # <<>>
  /\ \E i \in DOMAIN files : files[i].path.run = PyStr(str_B) /\ files[i].open

\* the metadata line of open(run_id, metadata): tagged metadata, with the
\* run_id, a timestamp and what the caller gave
IsMetadataOf(line, run_id, metadata) ==
  /\ Field(line, str_record_type) = PyStr(str_metadata)
  /\ Field(line, str_run_id) = run_id
  /\ HasKey(line.rec.m, PyStr(str_timestamp))
  /\ metadata # PyNone =>
        \A j \in DOMAIN metadata.m :
           /\ HasKey(line.rec.m, JsonKey(metadata.m[j].k))
           /\ Lookup(line.rec.m, JsonKey(metadata.m[j].k)) = ToJson(metadata.m[j].v)

\* C15, as stated: when open(run_id, metadata) has returned, for any
\* metadata, absent and empty included, the new stream holds exactly one
\* line, the metadata line of run_id and metadata.
C15_OpenWritesMetadataLine ==
  (last.op = "sink.open" /\ last.exc = NoExc)
  => /\ Len(FileAt(last.path).lines) = 1
     /\ FileAt(last.path).buf = <<>>
     /\ IsMetadataOf(FileAt(last.path).lines[1], last.run, last.metadata)

\* a call addressed to the run last'.run leaves the files of every other
\* run as they are, and takes no line from a file nor reorders its lines
OnlyOwnStream ==
  /\ DOMAIN files' = DOMAIN files
  /\ \A i \in DOMAIN files :
        IF files[i].path.run # last'.run
        THEN files'[i] = files[i]
        ELSE /\ Len(files'[i].lines) \in {Len(files[i].lines), Len(files[i].lines) + 1}
             /\ SubSeq(files'[i].lines, 1, Len(files[i].lines)) = files[i].lines

\* every line of a run's file was written by the open of that run, as its
\* first line, or by a write addressed to that run (or to no run)
OnlyOwnRecords(fs) ==
  \A i \in DOMAIN fs : \A k \in DOMAIN fs[i].lines :
     /\ fs[i].lines[k].via.by = "open" => k = 1
     /\ fs[i].lines[k].via.by = "write" => fs[i].lines[k].via.run \in {PyNone, fs[i].path.run}

\* C16: with several runs open on one Sink, a write or a close addressed to
\* a run changes neither the content nor the open/closed status of the
\* stream of any other run and appends at the end of its own, under every
\* interleaving of the calls; each stream holds only records written to
\* its run.
C16_RunsAreIndependent ==
  [][ /\ (last'.op \in {"sink.write", "sink.close"} /\ last'.run # PyNone) => OnlyOwnStream
      /\ OnlyOwnRecords(files') ]_vars

\* A and B are both open, and a record has been written to each in turn
C16_Witness ==
  /\ last.op = "sink.write"
  /\ last.run = PyStr(str_B)
  /\ IsOpenRun(PyStr(str_A))
  /\ IsOpenRun(PyStr(str_B))
  /\ \E i, j \in DOMAIN files :
        /\ files[i].path.run = PyStr(str_A)
        /\ files[j].path.run = PyStr(str_B)
        /\ files[i].open /\ files[j].open
        /\ Len(files[i].lines) = 2 /\ files[i].lines[2].via.by = "write"
        /\ Len(files[j].lines) = 2 /\ files[j].lines[2].via.by = "write"

\* C17, as stated: a call of a wrapped function gives its caller what the
\* function gave: the value it returned, or the error it raised, whether
\* a session is active on the instance or not.
C17_WrapperTransparent ==
  last.op = "wrapped"
  => IF last.outcome = NoExc
     THEN exc = NoExc /\ last.result = WrappedResult
     ELSE exc = last.outcome /\ last.result = NoResult

\* the line is the span of a wrapped call that ended with e (NoExc if it
\* returned): named after the decorator's argument, status "ok" or "error",
\* and the error field msg
IsWrappedSpan(line, e, msg) ==
  /\ IsSpanLine(line)
  /\ Field(line, str_name) = PyStr(str_test_function)
  /\ Field(line, str_status) = PyStr(IF e = NoExc THEN str_ok ELSE str_error)
  /\ Field(line, str_error) = msg

\* exactly one line has been added to the files by this step, and it is the
\* span of a wrapped call that ended with e, its error field msg
OneSpanEmitted(e, msg) ==
  \E i \in DOMAIN files :
     /\ Len(files'[i].lines) = Len(files[i].lines) + 1
     /\ SubSeq(files'[i].lines, 1, Len(files[i].lines)) = files[i].lines
     /\ files[i].path = HandlePath(handles, active[last'.tr])
     /\ IsWrappedSpan(files'[i].lines[Len(files'[i].lines)], e, msg)
     /\ \A j \in DOMAIN files : j # i => files'[j].lines = files[j].lines

\* the error field of the wrapper's span for a call that ended with e, as
\* the Redactor returns it
SafeMessage(e) == Lookup(sanitize(PyDict(<< KV(PyStr(str_error), PyStr(e.msg)) >>)).m, PyStr(str_error))

RecordType(line) == Field(line, str_record_type)

\* the record_type discriminators of the lines follow metadata, span*, and
\* a summary only as the last line
FollowsPattern(lines) ==
  \A k \in DOMAIN lines :
     RecordType(lines[k]) =
        IF k = 1 THEN PyStr(str_metadata)
        ELSE IF k = Len(lines) /\ IsSummaryLine(lines[k]) THEN PyStr(str_summary)
        ELSE PyStr(str_span)

\* C19, as stated: in every run's file the record_type of the first line is
\* metadata, the last line of a finished run (its session has been left) is
\* a summary, every line in between has record_type span, and no other
\* line has record_type metadata or summary, whatever metadata and span
\* fields the caller supplies.
C19_DiscriminatorsFollowPattern ==
  /\ \A i \in DOMAIN files : FollowsPattern(files[i].lines)
  /\ AtExit => (ExitLines # <<>> /\ IsSummaryLine(ExitLines[Len(ExitLines)]))

\* C20, as stated: once the Sink has been discarded, no stream that was
\* opened through it is open any more.
C20_TeardownClosesAll ==
  last.op = "sink.del" => \A i \in DOMAIN files : ~StreamOpen(files[i])

(***************************************************************************)
(* Properties of the sessions of one instance (checked under SpecNest).    *)
(***************************************************************************)
\* every line of the file of the session just left names its run, and no
\* line of another file does
OwnStream ==
  /\ \A k \in DOMAIN ExitLines : Field(ExitLines[k], str_run_id) = last.run
  /\ \A i \in DOMAIN files :
        files[i].path # last.path =>
           \A k \in DOMAIN files[i].lines : Field(files[i].lines[k], str_run_id) # last.run

\* the lines of the file of the session just left that add_span wrote
ExitSpans == SelectSeq(ExitLines, IsSpanLine)

\* the add_span calls that returned during the session just left, and the
\* session.error span if its recording returned
ExitCalls ==
  IdsOf(Returned(calls[last.tr]))
  \o (IF Len(ExitSpans) > Len(Returned(calls[last.tr]))
      THEN << Field(ExitSpans[Len(ExitSpans)], str_span_id) >> ELSE <<>>)

\* C21: a session that was entered on an instance after its earlier
\* sessions were left (not nested) has a stream of its own: every line of
\* its file names its run_id, no line of another file does, its span lines
\* are those of the add_span calls that returned during this session (and
\* the session.error span), and its summary's span_count is their number.
C21_SessionsAreSeparate ==
  (AtExit /\ ~last.nested) =>
     /\ OwnStream
     /\ Len(ExitSpans) <= Len(Returned(calls[last.tr])) + 1
     /\ \A k \in DOMAIN ExitSpans : Field(ExitSpans[k], str_span_id) = ExitCalls[k]
     /\ Len(ExitSpans) > Len(Returned(calls[last.tr])) =>
           Field(ExitSpans[Len(ExitSpans)], str_name) = PyStr(str_session_error)
     /\ IsSummaryLine(ExitLines[Len(ExitLines)]) =>
           Field(ExitLines[Len(ExitLines)], str_span_count) = PyInt(Len(ExitSpans))

\* the second of two sessions run one after another on the instance has
\* been left; each had one add_span call that returned, and each file has
\* three lines and a span_count of 1
C21_Witness ==
  /\ AtExit
  /\ ~last.nested
  /\ exc = NoExc
  /\ last.run = generate_id(str_run, 2)
  /\ Len(files) = 2
  /\ \A i \in DOMAIN files :
        /\ Len(files[i].lines) = 3
        /\ ~files[i].open
        /\ Field(files[i].lines[3], str_span_count) = PyInt(1)

\* C22, as stated: the metadata line of every session carries the app and
\* env the Trace instance was constructed with, and every key of the
\* metadata the caller supplied with its value, whatever that metadata is.
C22_MetadataCarriesIdentity ==
  \A i \in DOMAIN files :
     (files[i].lines # <<>> /\ IsMetadataLine(files[i].lines[1])) =>
        /\ Field(files[i].lines[1], str_app) = APP
        /\ Field(files[i].lines[1], str_env) = ENV
        /\ \A k \in DOMAIN files[i].lines[1].via.raw.m :
              files[i].lines[1].via.raw.m[k].k \notin {PyStr(str_app), PyStr(str_env)} =>
                 Lookup(files[i].lines[1].rec.m, files[i].lines[1].via.raw.m[k].k)
                    = files[i].lines[1].via.raw.m[k].v

(***************************************************************************)
(* Properties of safe() on objects that may hold themselves (checked under *)
(* SpecWalk).                                                              *)
(***************************************************************************)
\* in the result v of a call at depth d, whatever lies deeper than the
\* maximum depth is the max-depth marker, and the value of a sensitive key
\* is the redaction marker
RECURSIVE DeepMarked(_, _)
DeepMarked(v, d) ==
  IF d > DEFAULT_MAX_DEPTH THEN v = PyStr(MaxDepthMarker)
  ELSE CASE v.t = "map" ->
              \A i \in DOMAIN v.m :
                 IF IsSensitiveKey(v.m[i].k) THEN v.m[i].v = PyStr(Marker)
                 ELSE DeepMarked(v.m[i].v, d + 1)
         [] v.t = "list" -> \A i \in DOMAIN v.l : DeepMarked(v.l[i], d + 1)
         [] OTHER -> TRUE

\* C23: sanitize terminates on every input, also on containers that hold
\* themselves and on nestings deeper than the maximum depth; no call is made
\* at a depth beyond the maximum depth plus one, and in the result every
\* value that was reached beyond the maximum depth is the max-depth marker.
C23_SanitizeTerminates ==
  <>(/\ red.pc = "done"
     /\ red.deepest <= DEFAULT_MAX_DEPTH + 1
     /\ DeepMarked(red.ret, 0))

\* sanitize has returned for the list that holds itself: the result is
\* eleven lists deep around the max-depth marker
C23_Witness ==
  /\ red.pc = "done"
  /\ red.heap = << HeapList(<<1>>) >>
  /\ red.deepest = DEFAULT_MAX_DEPTH + 1
  /\ Height(red.ret) = DEFAULT_MAX_DEPTH + 1
  /\ red.ret # PyStr(MaxDepthMarker)

(***************************************************************************)
(* Properties of scan_repo (checked under SpecScan).                       *)
(***************************************************************************)
IsIn(entry, entries) == \E j \in DOMAIN entries : entries[j] = entry

\* C24: while scan_repo walks, no more than max_files files are recorded
\* and every prompt entry is a file entry; in its result file_count is the
\* number of entries of files and at most max_files, and every entry of
\* prompts is an entry of files.
C24_ScanCountsFiles ==
  IF red.pc # "done"
  THEN /\ Len(red.files) <= red.max_files
       /\ red.file_count = Len(red.files)
       /\ \A i \in DOMAIN red.prompts : IsIn(red.prompts[i], red.files)
  ELSE /\ red.context_map.file_count = Len(red.context_map.files)
       /\ red.context_map.file_count <= red.max_files
       /\ \A i \in DOMAIN red.context_map.prompts :
             IsIn(red.context_map.prompts[i], red.context_map.files)

\* scan_repo has returned with max_files = 2 after a file met the limit:
\* two files are recorded, one of them a prompt
C24_Witness ==
  /\ red.pc = "done"
  /\ red.max_files = 2
  /\ red.hit
  /\ red.context_map.file_count = 2
  /\ Len(red.context_map.prompts) = 1

\* C25, as stated: when the Sink's open fails while a session is being
\* entered, the instance is IDLE afterwards (_active_run_id is None), and
\* an add_span that follows outside any session fails with the
\* no-active-session error.
C25_FailedEnterLeavesIdle ==
  /\ (last.op = "enter" /\ exc # NoExc) => active[last.tr] = PyNone
  /\ (last.op = "add_span" /\ ~InSession(last.tr)) => exc = NoSessionError

\* C26, as stated: a close() without run_id leaves no stream open that was
\* opened through the Sink, whatever opens, writes and closes came before
\* (an open of a run_id that is already open among them); and an open that
\* returns has made a new file and has taken no line from the file of a run
\* that is open.
C26_TableTracksEveryStream ==
  [][ /\ (last'.op = "sink.close" /\ last'.run = PyNone) =>
            \A i \in DOMAIN files' : ~StreamOpen(files'[i])
      /\ (last'.op = "sink.open" /\ last'.exc = NoExc) =>
            /\ \A i \in DOMAIN files : files[i].path # last'.path
            /\ \A i \in DOMAIN files :
                  files[i].open => (i \in DOMAIN files' /\ files'[i].lines = files[i].lines)
    ]_vars

\* the file of the innermost scope that is open
TopLines == FileAt(stack[Len(stack)].path).lines

\* C27, as stated, for the scopes of an instance that are nested and whose
\* writes the operating system carries out: when a nested scope has been
\* left its file ends with the summary, holds one summary only and is
\* closed; and an add_span in a body whose scope is open does not fail for
\* want of a session, and its line is the last one of that scope's file.
C27_NestedScopesTornDown ==
  /\ (AtExit /\ last.nested /\ exc.type # str_OSError) =>
        /\ IsSummaryLine(ExitLines[Len(ExitLines)])
        /\ Len(SelectSeq(ExitLines, IsSummaryLine)) = 1
        /\ ExitClosed
  /\ (last.op = "add_span" /\ stack # <<>>) =>
        /\ exc # NoSessionError
        /\ exc = NoExc =>
              Field(TopLines[Len(TopLines)], str_span_id)
                 = calls[last.tr][Len(calls[last.tr])].id

\* C28, as stated: whenever a session scope has been left and its summary
\* was written, the summary's span_count is the number of span lines in the
\* run's file (the session.error span among them).
C28_CountEqualsWritten ==
  (AtExit /\ IsSummaryLine(ExitLines[Len(ExitLines)])) =>
     Field(ExitLines[Len(ExitLines)], str_span_count) = PyInt(Len(ExitSpans))
=============================================================================
